---- MODULE Spec2Model ----
(***************************************************************************)
(* A model of the AGFS shells of c4pt0r/pfs: agfs-shell2 (Shell, parser,   *)
(* pipeline, builtins, filesystem) and the older agfs-shell REPL           *)
(* (CommandHandler).  Text is modelled at the character level: a string is *)
(* a sequence of one-character strings, so that parsing, quoting,          *)
(* expansion and path normalisation are computed the way the code computes *)
(* them.                                                                   *)
(***************************************************************************)
EXTENDS Integers, Sequences, FiniteSets, TLC

VARIABLES
    shell,          \* which shell runs: "shell2" (agfs-shell2) or "agfs-shell"
    runmode,        \* agfs-shell2 started as "repl" or on a "script" file
    cwd,            \* Shell.cwd (agfs-shell2)
    shenv,          \* Shell.env
    remote,         \* the files of the AGFS server: path -> content
    pc,             \* where the REPL or the script runner stands
    buf,            \* the lines collected so far (multiline_buffer, for_lines, if_lines)
    for_depth,      \* for_depth of the REPL
    count,          \* the number of statements started
    status,         \* the exit code execute_script_file holds
    stmt,           \* the top-level statement that completed last
    current_path,   \* CommandHandler.current_path (agfs-shell)
    clientPath,     \* the path handed to the AGFS client by the last operation
    rp,             \* the last resolve call: [p, r, rr]
    tailf           \* the locals of cmd_tailf (pfs-shell) and what it has printed

pathVars == <<shell, cwd, current_path, clientPath, rp>>

shellVars == <<runmode, shenv, remote, pc, buf, for_depth, count, status, stmt, tailf>>

vars == <<shell, runmode, cwd, shenv, remote, pc, buf, for_depth, count, status, stmt,
          current_path, clientPath, rp, tailf>>

\* the bounds of the specifications
MaxStatements == 3
MaxBlock == 3

(***************************************************************************)
(* Strings                                                                 *)
(***************************************************************************)

StartsWith(s, pre) == Len(s) >= Len(pre) /\ SubSeq(s, 1, Len(pre)) = pre

EndsWith(s, suf) ==
    Len(s) >= Len(suf) /\ SubSeq(s, Len(s) - Len(suf) + 1, Len(s)) = suf

Drop(s, n) == SubSeq(s, n + 1, Len(s))

Contains(s, c) == \E i \in 1..Len(s) : s[i] = c

\* index of the first occurrence of character c in s, 0 when absent (str.find + 1)
IndexOf(s, c) ==
    IF Contains(s, c)
    THEN CHOOSE i \in 1..Len(s) : s[i] = c /\ \A j \in 1..(i - 1) : s[j] # c
    ELSE 0

RECURSIVE SplitOn(_, _)
\* str.split(c) for a one-character separator: empty fields are kept
SplitOn(s, c) ==
    IF ~Contains(s, c) THEN <<s>>
    ELSE LET i == IndexOf(s, c)
         IN  <<SubSeq(s, 1, i - 1)>> \o SplitOn(Drop(s, i), c)

RECURSIVE JoinWith(_, _)
\* sep.join(parts)
JoinWith(parts, sep) ==
    IF parts = <<>> THEN <<>>
    ELSE IF Len(parts) = 1 THEN parts[1]
    ELSE parts[1] \o sep \o JoinWith(Tail(parts), sep)

\* the backquote character, which a TLA+ string cannot hold
Backtick == "BACKTICK"

WS == {" ", "\t", "\n", "\r", "\f"}

Digits == {"0", "1", "2", "3", "4", "5", "6", "7", "8", "9"}

Letters ==
    {"a", "b", "c", "d", "e", "f", "g", "h", "i", "j", "k", "l", "m",
     "n", "o", "p", "q", "r", "s", "t", "u", "v", "w", "x", "y", "z",
     "A", "B", "C", "D", "E", "F", "G", "H", "I", "J", "K", "L", "M",
     "N", "O", "P", "Q", "R", "S", "T", "U", "V", "W", "X", "Y", "Z"}

\* the characters \w and \b of Python's re know as word characters
WordChars == Letters \cup Digits \cup {"_"}



\* the length of the longest prefix of s made of characters of set C
Span(s, C) ==
    IF \A i \in 1..Len(s) : s[i] \in C THEN Len(s)
    ELSE (CHOOSE i \in 1..Len(s) : s[i] \notin C /\ \A j \in 1..(i - 1) : s[j] \in C) - 1

\* the length of the longest prefix of s made of characters outside set C
SpanNot(s, C) ==
    IF \A i \in 1..Len(s) : s[i] \notin C THEN Len(s)
    ELSE (CHOOSE i \in 1..Len(s) : s[i] \in C /\ \A j \in 1..(i - 1) : s[j] \notin C) - 1

\* str.lstrip()
LStrip(s) == Drop(s, Span(s, WS))

\* str.rstrip()
RStrip(s) ==
    IF \A i \in 1..Len(s) : s[i] \in WS THEN <<>>
    ELSE SubSeq(s, 1, CHOOSE i \in 1..Len(s) :
                          s[i] \notin WS /\ \A j \in (i + 1)..Len(s) : s[j] \in WS)

\* str.strip()
Strip(s) == LStrip(RStrip(s))

\* the positions at which sub occurs in s
Occurrences(s, sub) ==
    {i \in 1..(Len(s) - Len(sub) + 1) : SubSeq(s, i, i + Len(sub) - 1) = sub}

\* `sub in s`
HasSub(s, sub) == Occurrences(s, sub) # {}

Min(S) == CHOOSE x \in S : \A y \in S : x <= y

\* str.find(sub) + 1: the first position of sub in s, 0 when absent
Find(s, sub) == IF HasSub(s, sub) THEN Min(Occurrences(s, sub)) ELSE 0

RECURSIVE ReplaceAll(_, _, _)
\* str.replace(old, new), old not empty
ReplaceAll(s, old, new) ==
    LET i == Find(s, old)
    IN  IF i = 0 THEN s
        ELSE SubSeq(s, 1, i - 1) \o new \o ReplaceAll(Drop(s, i + Len(old) - 1), old, new)



RECURSIVE SplitWs(_)
\* str.split(): fields separated by runs of whitespace, no empty field
SplitWs(s) ==
    LET t == LStrip(s)
        n == SpanNot(t, WS)
    IN  IF t = <<>> THEN <<>>
        ELSE <<SubSeq(t, 1, n)>> \o SplitWs(Drop(t, n))

RECURSIVE SplitSemi(_)
\* re.split(r';\s*', s)
SplitSemi(s) ==
    LET i == IndexOf(s, ";")
        rest == Drop(s, i)
    IN  IF i = 0 THEN <<s>>
        ELSE <<SubSeq(s, 1, i - 1)>> \o SplitSemi(Drop(rest, Span(rest, WS)))

\* re.search(r'\bword\b', s), for a word made of word characters
HasWord(s, word) ==
    \E i \in Occurrences(s, word) :
        /\ (i = 1 \/ s[i - 1] \notin WordChars)
        /\ (i + Len(word) > Len(s) \/ s[i + Len(word)] \notin WordChars)

\* [f(x) for x in seq if keep(x)] with f = strip and keep = non-empty after strip
RECURSIVE StripAll(_)
StripAll(parts) ==
    IF parts = <<>> THEN <<>>
    ELSE IF Strip(Head(parts)) = <<>> THEN StripAll(Tail(parts))
    ELSE <<Strip(Head(parts))>> \o StripAll(Tail(parts))

RECURSIVE NatToStr(_)
NatToStr(n) ==
    LET d == <<"0", "1", "2", "3", "4", "5", "6", "7", "8", "9">>
    IN  IF n < 10 THEN <<d[n + 1]>> ELSE NatToStr(n \div 10) \o <<d[(n % 10) + 1]>>

\* str(n) for an int
IntToStr(n) == IF n < 0 THEN <<"-">> \o NatToStr(-n) ELSE NatToStr(n)

\* str.isalnum() over the ASCII characters of the model
IsAlnum(s) == s # <<>> /\ \A i \in 1..Len(s) : s[i] \in Letters \cup Digits

\* Python's None, and an absent dict key: no string equals it
None == <<"None">>

(***************************************************************************)
(* The parser (agfs_shell2/parser.py)                                      *)
(***************************************************************************)

ShlexWS == {" ", "\t", "\r", "\n"}

RECURSIVE ShlexRun(_, _, _, _, _, _, _)
\* shlex.split(s): the POSIX-mode state machine of shlex.read_token.  state is
\* "ws" (between tokens), "a" (in a word), "sq" / "dq" (in quotes) or "esc"
\* (after a backslash, to return to state esc).  A run of characters that
\* leave the state alone is read in one step.  The result is the token list,
\* or None for the ValueError of an unclosed quote or a trailing backslash.
ShlexRun(s, i, state, esc, token, quoted, toks) ==
    IF i > Len(s)
    THEN IF state \in {"sq", "dq", "esc"} THEN None
         ELSE IF state = "a" /\ (token # <<>> \/ quoted) THEN Append(toks, token)
         ELSE toks
    ELSE CASE state = "ws" ->
                  IF s[i] \in ShlexWS
                  THEN ShlexRun(s, i + Span(Drop(s, i - 1), ShlexWS), "ws", esc, <<>>, FALSE, toks)
                  ELSE IF s[i] = "\\" THEN ShlexRun(s, i + 1, "esc", "a", <<>>, FALSE, toks)
                  ELSE IF s[i] = "'" THEN ShlexRun(s, i + 1, "sq", esc, <<>>, FALSE, toks)
                  ELSE IF s[i] = "\"" THEN ShlexRun(s, i + 1, "dq", esc, <<>>, FALSE, toks)
                  ELSE ShlexRun(s, i + 1, "a", esc, <<s[i]>>, FALSE, toks)
           [] state = "sq" ->
                  IF s[i] = "'" THEN ShlexRun(s, i + 1, "a", esc, token, TRUE, toks)
                  ELSE ShlexRun(s, i + SpanNot(Drop(s, i - 1), {"'"}), "sq", esc,
                                token \o SubSeq(s, i, i + SpanNot(Drop(s, i - 1), {"'"}) - 1),
                                TRUE, toks)
           [] state = "dq" ->
                  IF s[i] = "\"" THEN ShlexRun(s, i + 1, "a", esc, token, TRUE, toks)
                  ELSE IF s[i] = "\\" THEN ShlexRun(s, i + 1, "esc", "dq", token, TRUE, toks)
                  ELSE ShlexRun(s, i + SpanNot(Drop(s, i - 1), {"\"", "\\"}), "dq", esc,
                                token \o SubSeq(s, i, i + SpanNot(Drop(s, i - 1), {"\"", "\\"}) - 1),
                                TRUE, toks)
           [] state = "esc" ->
                  ShlexRun(s, i + 1, esc, esc,
                           IF esc = "dq" /\ s[i] # "\\" /\ s[i] # "\""
                           THEN token \o <<"\\", s[i]>> ELSE Append(token, s[i]),
                           quoted, toks)
           [] state = "a" ->
                  IF s[i] \in ShlexWS
                  THEN ShlexRun(s, i + 1, "ws", esc, <<>>, FALSE,
                                IF token # <<>> \/ quoted THEN Append(toks, token) ELSE toks)
                  ELSE IF s[i] = "'" THEN ShlexRun(s, i + 1, "sq", esc, token, quoted, toks)
                  ELSE IF s[i] = "\"" THEN ShlexRun(s, i + 1, "dq", esc, token, quoted, toks)
                  ELSE IF s[i] = "\\" THEN ShlexRun(s, i + 1, "esc", "a", token, quoted, toks)
                  ELSE ShlexRun(s, i + SpanNot(Drop(s, i - 1), ShlexWS \cup {"'", "\"", "\\"}),
                                "a", esc,
                                token \o SubSeq(s, i, i + SpanNot(Drop(s, i - 1),
                                                       ShlexWS \cup {"'", "\"", "\\"}) - 1),
                                quoted, toks)

ShlexSplit(s) == ShlexRun(s, 1, "ws", "a", <<>>, FALSE, <<>>)

\* the tokens of one pipeline part: shlex.split, on ValueError str.split()
PartTokens(part) ==
    IF ShlexSplit(part) = None THEN SplitWs(part) ELSE ShlexSplit(part)

RECURSIVE PipelineParts(_)
PipelineParts(parts) ==
    IF parts = <<>> THEN <<>>
    ELSE LET part == Strip(Head(parts))
             tokens == PartTokens(part)
         IN  IF part = <<>> \/ tokens = <<>> THEN PipelineParts(Tail(parts))
             ELSE <<[cmd |-> tokens[1], args |-> Tail(tokens)]>>
                  \o PipelineParts(Tail(parts))



\* CommandParser.parse_pipeline: a list of [cmd, args]
parse_pipeline(command_line) ==
    IF Strip(command_line) = <<>> THEN <<>>
    ELSE PipelineParts(SplitOn(command_line, "|"))

\* re.search(r'\s+OP\s+(\S+)', s): [found, start, end, filename], the match
\* being s[start..end] and filename group 1
RedirMatch(s, op) ==
    LET n == Len(op)
        ok(j) == /\ j > 1
                 /\ s[j - 1] \in WS
                 /\ j + n <= Len(s)
                 /\ s[j + n] \in WS
                 /\ j + n + Span(Drop(s, j + n - 1), WS) <= Len(s)
        cand == {j \in Occurrences(s, op) : ok(j)}
    IN  IF cand = {} THEN [found |-> FALSE]
        ELSE LET j == Min(cand)
                 pre == SubSeq(s, 1, j - 1)
                 start == Len(RStrip(pre)) + 1
                 k == j + n + Span(Drop(s, j + n - 1), WS)
                 end == k + SpanNot(Drop(s, k - 1), WS) - 1
             IN  [found |-> TRUE, start |-> start, end |-> end,
                  filename |-> SubSeq(s, k, end)]

\* "Remove quotes if present"
Unquote(f) ==
    IF \/ (StartsWith(f, <<"\"">>) /\ EndsWith(f, <<"\"">>))
       \/ (StartsWith(f, <<"'">>) /\ EndsWith(f, <<"'">>))
    THEN SubSeq(f, 2, Len(f) - 1)
    ELSE f

\* an absent stdout_mode or stderr_mode
NoMode == "None"

NoRedirections ==
    [stdin |-> None, stdout |-> None, stdout_mode |-> NoMode,
     stderr |-> None, stderr_mode |-> NoMode]

\* the (pattern, redirect_type, mode) list of parse_redirection, in its order
RedirPatterns ==
    << [op |-> <<"<">>, type |-> "stdin", mode |-> NoMode],
       [op |-> <<"2", ">", ">">>, type |-> "stderr", mode |-> "append"],
       [op |-> <<"2", ">">>, type |-> "stderr", mode |-> "write"],
       [op |-> <<">", ">">>, type |-> "stdout", mode |-> "append"],
       [op |-> <<">">>, type |-> "stdout", mode |-> "write"] >>

RECURSIVE RedirLoop(_, _, _)

\* one redirection found: it is recorded and cut out of the line
RedirFound(k, cleaned, rd, pat, m, f) ==
    RedirLoop(k + 1,
              SubSeq(cleaned, 1, m.start - 1) \o Drop(cleaned, m.end),
              IF pat.type = "stdin" THEN [rd EXCEPT !.stdin = f]
              ELSE IF pat.type = "stderr"
              THEN [rd EXCEPT !.stderr = f, !.stderr_mode = pat.mode]
              ELSE [rd EXCEPT !.stdout = f, !.stdout_mode = pat.mode])

\* pattern k searched in the line: m is the match
RedirSearched(k, cleaned, rd, m) ==
    IF ~m.found THEN RedirLoop(k + 1, cleaned, rd)
    ELSE RedirFound(k, cleaned, rd, RedirPatterns[k], m, Unquote(m.filename))

\* the loop of parse_redirection over patterns k..5: [line, redirections]
RedirLoop(k, cleaned, rd) ==
    IF k > Len(RedirPatterns) THEN [line |-> Strip(cleaned), redirections |-> rd]
    ELSE RedirSearched(k, cleaned, rd, RedirMatch(cleaned, RedirPatterns[k].op))

\* CommandParser.parse_redirection
parse_redirection(command_line) == RedirLoop(1, command_line, NoRedirections)

\* the form of a parsed command line
ParsedLine(r) == [commands |-> parse_pipeline(r.line), redirections |-> r.redirections]

\* CommandParser.parse_command_line: [commands, redirections]
parse_command_line(command_line) == ParsedLine(parse_redirection(command_line))

(***************************************************************************)
(* Paths                                                                   *)
(***************************************************************************)

Slash == <<"/">>
Dot == <<".">>
DotDot == <<".", ".">>

RECURSIVE NormComps(_, _, _)
\* the component loop of posixpath.normpath
NormComps(comps, new, initial) ==
    IF comps = <<>> THEN new
    ELSE LET comp == Head(comps)
             rest == Tail(comps)
         IN  IF comp = <<>> \/ comp = Dot
             THEN NormComps(rest, new, initial)
             ELSE IF \/ comp # DotDot
                     \/ (initial = 0 /\ new = <<>>)
                     \/ (new # <<>> /\ new[Len(new)] = DotDot)
             THEN NormComps(rest, Append(new, comp), initial)
             ELSE IF new # <<>>
             THEN NormComps(rest, SubSeq(new, 1, Len(new) - 1), initial)
             ELSE NormComps(rest, new, initial)

\* os.path.normpath on POSIX: exactly two leading slashes are kept
Normpath(path) ==
    IF path = <<>> THEN Dot
    ELSE LET initial ==
                 IF ~StartsWith(path, Slash) THEN 0
                 ELSE IF StartsWith(path, <<"/", "/">>)
                         /\ ~StartsWith(path, <<"/", "/", "/">>) THEN 2
                 ELSE 1
             body == JoinWith(NormComps(SplitOn(path, "/"), <<>>, initial), Slash)
             out == (IF initial = 2 THEN <<"/", "/">>
                     ELSE IF initial = 1 THEN Slash ELSE <<>>) \o body
         IN  IF out = <<>> THEN Dot ELSE out

\* os.path.join(a, b) for two components
PathJoin(a, b) ==
    IF StartsWith(b, Slash) THEN b
    ELSE IF a = <<>> \/ EndsWith(a, Slash) THEN a \o b
    ELSE a \o Slash \o b

\* a resolve_path that forgets to join a relative path with the cwd
ResolvePathNoJoin(c, path) ==
    IF path = <<>> THEN c ELSE Normpath(path)

\* Shell.resolve_path, with the shell's cwd passed as c
resolve_path(c, path) ==
    IF path = <<>> THEN c
    ELSE Normpath(IF StartsWith(path, Slash) THEN path ELSE PathJoin(c, path))

\* CommandHandler._normalize_path
normalize_path(path) ==
    LET n0 == Normpath(path)
        n1 == IF ~StartsWith(n0, Slash) THEN Slash \o n0 ELSE n0
    IN  IF n1 = <<"/", ".">> THEN Slash ELSE n1

\* CommandHandler._resolve_path, with current_path passed as c
agfs_resolve_path(c, path) ==
    LET resolved == IF StartsWith(path, Slash) THEN path
                    ELSE IF c = Slash THEN Slash \o path
                    ELSE c \o Slash \o path
    IN  normalize_path(resolved)

\* absolute and normalized: no "." or ".." component and no "//" anywhere
IsNormalized(p) ==
    /\ StartsWith(p, Slash)
    /\ \A i \in 1..(Len(p) - 1) : ~(p[i] = "/" /\ p[i + 1] = "/")
    /\ \A k \in 1..Len(SplitOn(p, "/")) :
           SplitOn(p, "/")[k] # Dot /\ SplitOn(p, "/")[k] # DotDot
    /\ (Len(p) > 1 => p[Len(p)] # "/")

(***************************************************************************)
(* The environment and the remote file system                              *)
(*                                                                         *)
(* Shell.env is a function from names to values.  The AGFS server is the   *)
(* environment of the shells: it holds the directories Dirs and a function *)
(* from file paths to contents, stores what client.write hands it when the *)
(* parent directory exists, and raises AGFSClientError otherwise.          *)
(***************************************************************************)

\* dict.get(k, d)
EnvGet(env, k, d) == IF k \in DOMAIN env THEN env[k] ELSE d

\* env[k] = v
EnvSet(env, k, v) == [x \in DOMAIN env \cup {k} |-> IF x = k THEN v ELSE env[x]]

\* del env[k]
EnvDel(env, k) == [x \in DOMAIN env \ {k} |-> env[x]]

\* Shell.__init__: env
InitEnv ==
    EnvSet(EnvSet(<<>>, <<"?">>, <<"0">>), <<"H", "I", "S", "T", "F", "I", "L", "E">>, <<"/", "r", "o", "o", "t", "/", ".", "a", "g", "f", "s", "_", "s", "h", "e", "l", "l", "_", "h", "i", "s", "t", "o", "r", "y">>)

\* the characters of the model in ASCII order, for sorted()
AsciiOrder ==
    <<"\t", "\n", " ", "!", "\"", "#", "$", "'", "(", ")", "*", "-", ".", "/", "0", "1", "2", "3", "4", "5", "6", "7", "8", "9", ";", "<", "=", ">", "?", "A", "B", "C", "D", "E", "F", "G", "H", "I", "J", "K", "L", "M", "N", "O", "P", "Q", "R", "S", "T", "U", "V", "W", "X", "Y", "Z", "[", "\\", "]", "_", Backtick, "a", "b", "c", "d", "e", "f", "g", "h", "i", "j", "k", "l", "m", "n", "o", "p", "q", "r", "s", "t", "u", "v", "w", "x", "y", "z", "{", "|", "}">>

Ord(c) == CHOOSE i \in 1..Len(AsciiOrder) : AsciiOrder[i] = c

RECURSIVE StrLess(_, _)
\* a < b for two strings
StrLess(a, b) ==
    IF b = <<>> THEN FALSE
    ELSE IF a = <<>> THEN TRUE
    ELSE IF a[1] # b[1] THEN Ord(a[1]) < Ord(b[1])
    ELSE StrLess(Tail(a), Tail(b))

RECURSIVE Sorted(_)
\* sorted(S) for a set of strings
Sorted(S) ==
    IF S = {} THEN <<>>
    ELSE LET m == CHOOSE x \in S : \A y \in S \ {x} : StrLess(x, y)
         IN  <<m>> \o Sorted(S \ {m})

RECURSIVE Concat(_)
\* b''.join(chunks)
Concat(chunks) ==
    IF chunks = <<>> THEN <<>> ELSE Head(chunks) \o Concat(Tail(chunks))

\* the directories of the server
Dirs == {Slash, <<"/", "d">>}

\* the index of the last "/" in p, 0 when there is none
LastSlash(p) ==
    IF \E i \in 1..Len(p) : p[i] = "/"
    THEN CHOOSE i \in 1..Len(p) : p[i] = "/" /\ \A j \in (i + 1)..Len(p) : p[j] # "/"
    ELSE 0

\* os.path.dirname
Dirname(p) ==
    LET head == SubSeq(p, 1, LastSlash(p))
    IN  IF head # <<>> /\ \E i \in 1..Len(head) : head[i] # "/"
        THEN SubSeq(head, 1, CHOOSE n \in 1..Len(head) :
                                 head[n] # "/" /\ \A j \in (n + 1)..Len(head) : head[j] = "/")
        ELSE head

\* os.path.basename
Basename(p) == Drop(p, LastSlash(p))

\* client.stat(path) succeeds
FsExists(files, path) == path \in Dirs \/ path \in DOMAIN files

\* AGFSFileSystem.is_directory
is_directory(files, path) == path \in Dirs

\* AGFSFileSystem.file_exists
file_exists(files, path) == FsExists(files, path)

\* AGFSFileSystem.list_directory: [ok, names], the names of the entries of a
\* directory, ok FALSE for AGFSClientError
list_directory(files, path) ==
    [ok |-> path \in Dirs,
     names |-> {Basename(f) : f \in {g \in DOMAIN files : Dirname(g) = path}}
               \cup {Basename(d) : d \in {e \in Dirs \ {Slash} : Dirname(e) = path}}]

\* the server refuses to read this file, whatever it holds: client.cat
\* raises AGFSClientError for a file that exists
ReadDenied(path) == path = <<"/", "w">>

\* AGFSFileSystem.read_file: the content, or None for AGFSClientError
read_file(files, path) ==
    IF path \in DOMAIN files /\ ~ReadDenied(path) THEN files[path] ELSE None

\* client.write(path, data) is accepted by the server
WriteAccepted(path) == path \notin Dirs /\ Dirname(path) \in Dirs

\* a write_file that ignores the append flag and always overwrites
WriteFileOverwrite(files, path, data, append) ==
    IF WriteAccepted(path)
    THEN [ok |-> TRUE,
          files |-> [x \in DOMAIN files \cup {path} |->
                        IF x = path THEN data ELSE files[x]]]
    ELSE [ok |-> FALSE, files |-> files]

\* AGFSFileSystem.write_file: [ok, files], ok FALSE for AGFSClientError
write_file(files, path, data, append) ==
    LET existing == IF append /\ read_file(files, path) # None
                    THEN read_file(files, path) ELSE <<>>
        written == IF append THEN existing \o data ELSE data
    IN  IF WriteAccepted(path)
        THEN [ok |-> TRUE,
              files |-> [x \in DOMAIN files \cup {path} |->
                            IF x = path THEN written ELSE files[x]]]
        ELSE [ok |-> FALSE, files |-> files]

(***************************************************************************)
(* Processes and builtins (agfs_shell2/process.py, builtins.py)            *)
(*                                                                         *)
(* A process p is [command, args, stdin, env, cwd, files, tty]: what the   *)
(* shell hands the executor (shell.py 759-770; the builtins read           *)
(* process.env, process.cwd and process.filesystem).  tty is the sequence  *)
(* of chunks waiting on the real standard input of the shell process.  The *)
(* result of a run is [code, out, err, env, tty].  The builtins modelled   *)
(* are echo, cat, pwd, cd, export, unset, test and [; command lines of the *)
(* specifications use these names and names that are no builtin.           *)
(***************************************************************************)

Result(p, code, out, err) ==
    [code |-> code, out |-> out, err |-> err, env |-> p.env, tty |-> p.tty]

\* cmd_echo
cmd_echo(p) ==
    IF p.args # <<>>
    THEN Result(p, 0, JoinWith(p.args, <<" ">>) \o <<"\n">>, <<>>)
    ELSE Result(p, 0, <<"\n">>, <<>>)

RECURSIVE CatFiles(_, _, _)
\* the loop of cmd_cat over its file arguments: it stops at the first failure
CatFiles(p, names, out) ==
    IF names = <<>> THEN Result(p, 0, out, <<>>)
    ELSE IF read_file(p.files, Head(names)) = None
    THEN Result(p, 1, out,
                <<"c", "a", "t", ":", " ">> \o Head(names) \o <<":", " ", "N", "o", " ", "s", "u", "c", "h", " ", "f", "i", "l", "e", " ", "o", "r", " ", "d", "i", "r", "e", "c", "t", "o", "r", "y", "\n">>)
    ELSE CatFiles(p, Tail(names), out \o read_file(p.files, Head(names)))

\* the place in the chunks of the real standard input where the user presses
\* Ctrl+C: the read that reaches it raises KeyboardInterrupt
CtrlC == <<"^C">>

\* the number of chunks read before Ctrl+C is pressed, Len(tty) when it is not
BeforeCtrlC(tty) ==
    IF \E i \in 1..Len(tty) : tty[i] = CtrlC
    THEN Min({i \in 1..Len(tty) : tty[i] = CtrlC}) - 1
    ELSE Len(tty)

\* cmd_cat: without arguments the stdin buffer when it holds data, otherwise
\* whatever the real standard input delivers until its end; a
\* KeyboardInterrupt of that read is caught: "cat: interrupted" and 130
cmd_cat(p) ==
    IF p.args = <<>>
    THEN IF p.stdin # <<>>
         THEN Result(p, 0, p.stdin, <<>>)
         ELSE IF BeforeCtrlC(p.tty) < Len(p.tty)
         THEN [Result(p, 130, Concat(SubSeq(p.tty, 1, BeforeCtrlC(p.tty))),
                      <<"\n", "c", "a", "t", ":", " ", "i", "n", "t", "e", "r", "r", "u", "p", "t", "e", "d", "\n">>)
               EXCEPT !.tty = Drop(p.tty, BeforeCtrlC(p.tty) + 1)]
         ELSE [Result(p, 0, Concat(p.tty), <<>>) EXCEPT !.tty = <<>>]
    ELSE CatFiles(p, p.args, <<>>)

\* cmd_pwd
cmd_pwd(p) == Result(p, 0, p.cwd \o <<"\n">>, <<>>)

\* cmd_cd as an executor: it records cd_target on the process, no more
cmd_cd(p) == Result(p, 0, <<>>, <<>>)

RECURSIVE ExportLines(_, _)
\* "key=value\n" for the keys in order
ExportLines(env, keys) ==
    IF keys = <<>> THEN <<>>
    ELSE Head(keys) \o <<"=">> \o env[Head(keys)] \o <<"\n">>
         \o ExportLines(env, Tail(keys))

RECURSIVE ExportArgs(_, _)
\* the loop of cmd_export over its arguments: [code, env, err]
ExportArgs(env, args) ==
    IF args = <<>> THEN [code |-> 0, env |-> env, err |-> <<>>]
    ELSE LET arg == Head(args)
             eq == IndexOf(arg, "=")
             var_name == Strip(SubSeq(arg, 1, eq - 1))
             var_value == Strip(Drop(arg, eq))
         IN  IF eq = 0
             THEN [code |-> 1, env |-> env,
                   err |-> <<"e", "x", "p", "o", "r", "t", ":", " ", "u", "s", "a", "g", "e", ":", " ", "e", "x", "p", "o", "r", "t", " ", "V", "A", "R", "=", "v", "a", "l", "u", "e", "\n">>]
             ELSE IF var_name # <<>>
                     /\ IsAlnum(ReplaceAll(ReplaceAll(var_name, <<"_">>, <<>>), <<"-">>, <<>>))
             THEN ExportArgs(EnvSet(env, var_name, var_value), Tail(args))
             ELSE [code |-> 1, env |-> env,
                   err |-> <<"e", "x", "p", "o", "r", "t", ":", " ", "i", "n", "v", "a", "l", "i", "d", " ", "v", "a", "r", "i", "a", "b", "l", "e", " ", "n", "a", "m", "e", ":", " ">> \o var_name \o <<"\n">>]

\* the environment and exit code cmd_export leaves: r is [code, env, err]
Exported(p, r) == [Result(p, r.code, <<>>, r.err) EXCEPT !.env = r.env]

\* cmd_export
cmd_export(p) ==
    IF p.args = <<>>
    THEN Result(p, 0, ExportLines(p.env, Sorted(DOMAIN p.env)), <<>>)
    ELSE Exported(p, ExportArgs(p.env, p.args))

RECURSIVE UnsetArgs(_, _)
UnsetArgs(env, args) ==
    IF args = <<>> THEN env
    ELSE UnsetArgs(IF Head(args) \in DOMAIN env THEN EnvDel(env, Head(args)) ELSE env,
                   Tail(args))



\* cmd_unset
cmd_unset(p) ==
    IF p.args = <<>> THEN Result(p, 1, <<>>, <<"u", "n", "s", "e", "t", ":", " ", "m", "i", "s", "s", "i", "n", "g", " ", "v", "a", "r", "i", "a", "b", "l", "e", " ", "n", "a", "m", "e", "\n">>)
    ELSE [Result(p, 0, <<>>, <<>>) EXCEPT !.env = UnsetArgs(p.env, p.args)]

\* the digits of an integer literal without its sign
IntDigits(t) == IF t # <<>> /\ t[1] \in {"-", "+"} THEN Tail(t) ELSE t

\* digits with single underscores between them
IsDigits(d) ==
    /\ d # <<>>
    /\ \A i \in 1..Len(d) : d[i] \in Digits \cup {"_"}
    /\ d[1] # "_" /\ d[Len(d)] # "_"
    /\ \A i \in 1..(Len(d) - 1) : ~(d[i] = "_" /\ d[i + 1] = "_")

\* int(s) succeeds: an optional sign, then digits with single underscores
\* between them, whitespace around allowed
IsInt(s) == IsDigits(IntDigits(Strip(s)))

RECURSIVE DigitsToNat(_, _)
DigitsToNat(d, acc) ==
    IF d = <<>> THEN acc
    ELSE IF Head(d) = "_" THEN DigitsToNat(Tail(d), acc)
    ELSE DigitsToNat(Tail(d),
             10 * acc + (CHOOSE n \in 0..9 : NatToStr(n) = <<Head(d)>>))

\* the sign applied to the digits of a stripped integer literal
SignedInt(t) ==
    IF t[1] = "-" THEN 0 - DigitsToNat(Tail(t), 0) ELSE DigitsToNat(IntDigits(t), 0)

\* int(s), for IsInt(s)
ToInt(s) == SignedInt(Strip(s))

TestVal(b) == [err |-> None, val |-> b]
TestErr(msg) == [err |-> msg, val |-> FALSE]

\* the integer comparison op of two integers
TestCompare(op, left, right) ==
    TestVal(CASE op = <<"-", "e", "q">> -> left = right
              [] op = <<"-", "n", "e">> -> left # right
              [] op = <<"-", "g", "t">> -> left > right
              [] op = <<"-", "l", "t">> -> left < right
              [] op = <<"-", "g", "e">> -> left >= right
              [] op = <<"-", "l", "e">> -> left <= right)

\* "! expr": the negation of the result r
TestNot(r) == IF r.err # None THEN r ELSE TestVal(~r.val)

\* "expr -a expr" and "expr -o expr" of the results left and right
TestBoth(is_and, left, right) ==
    IF left.err # None THEN left
    ELSE IF right.err # None THEN right
    ELSE TestVal(IF is_and THEN left.val /\ right.val ELSE left.val \/ right.val)

\* args.index(op)
ArgIndex(args, op) ==
    CHOOSE i \in 1..Len(args) : args[i] = op /\ \A j \in 1..(i - 1) : args[j] # op

RECURSIVE evaluate_test_expression(_, _)

\* the expression split at index idx, where -a or -o stands
TestSplit(args, files, is_and, idx) ==
    TestBoth(is_and, evaluate_test_expression(SubSeq(args, 1, idx - 1), files),
                     evaluate_test_expression(Drop(args, idx), files))

\* _evaluate_test_expression: [err, val], err the message of the ValueError
\* raised or None.  -f asks the filesystem for get_file_info, which
\* AGFSFileSystem does not have: the AttributeError is swallowed and the answer
\* is False.
evaluate_test_expression(args, files) ==
    IF args = <<>> THEN TestVal(FALSE)
    ELSE IF Len(args) = 1 THEN TestVal(args[1] # <<>>)
    ELSE IF args[1] = <<"!">> THEN TestNot(evaluate_test_expression(Tail(args), files))
    ELSE IF args[1] = <<"-", "f">> THEN TestVal(FALSE)
    ELSE IF args[1] = <<"-", "d">> THEN TestVal(is_directory(files, args[2]))
    ELSE IF args[1] = <<"-", "e">> THEN TestVal(file_exists(files, args[2]))
    ELSE IF args[1] = <<"-", "z">> THEN TestVal(Len(args[2]) = 0)
    ELSE IF args[1] = <<"-", "n">> THEN TestVal(Len(args[2]) > 0)
    ELSE IF Len(args) >= 3 /\ \E i \in 1..Len(args) : args[i] = <<"-", "a">>
    THEN TestSplit(args, files, TRUE, ArgIndex(args, <<"-", "a">>))
    ELSE IF Len(args) >= 3 /\ \E i \in 1..Len(args) : args[i] = <<"-", "o">>
    THEN TestSplit(args, files, FALSE, ArgIndex(args, <<"-", "o">>))
    ELSE IF Len(args) >= 3 /\ args[2] = <<"=">> THEN TestVal(args[1] = args[3])
    ELSE IF Len(args) >= 3 /\ args[2] = <<"!", "=">> THEN TestVal(args[1] # args[3])
    ELSE IF Len(args) >= 3
            /\ args[2] \in {<<"-", "e", "q">>, <<"-", "n", "e">>, <<"-", "g", "t">>, <<"-", "l", "t">>, <<"-", "g", "e">>, <<"-", "l", "e">>}
    THEN IF ~IsInt(args[1]) \/ ~IsInt(args[3])
         THEN TestErr(<<"i", "n", "t", "e", "g", "e", "r", " ", "e", "x", "p", "r", "e", "s", "s", "i", "o", "n", " ", "e", "x", "p", "e", "c", "t", "e", "d", ":", " ">> \o args[1] \o <<" ", "o", "r", " ">> \o args[3])
         ELSE TestCompare(args[2], ToInt(args[1]), ToInt(args[3]))
    ELSE TestVal(args[1] # <<>>)

\* the exit code and message of cmd_test for the result r of the expression
TestResult(p, args, r) ==
    IF args = <<>> THEN Result(p, 1, <<>>, <<>>)
    ELSE IF r.err # None
    THEN Result(p, 2, <<>>, <<"t", "e", "s", "t", ":", " ">> \o r.err \o <<"\n">>)
    ELSE Result(p, IF r.val THEN 0 ELSE 1, <<>>, <<>>)

\* cmd_test on the arguments left when the closing ] of [ is removed
TestArgs(p, args) == TestResult(p, args, evaluate_test_expression(args, p.files))

\* cmd_test, also reached as [
cmd_test(p) ==
    IF p.command = <<"[">> /\ (p.args = <<>> \/ p.args[Len(p.args)] # <<"]">>)
    THEN Result(p, 2, <<>>, <<"[", ":", " ", "m", "i", "s", "s", "i", "n", "g", " ", "'", "]", "'", "\n">>)
    ELSE TestArgs(p, IF p.command = <<"[">> THEN SubSeq(p.args, 1, Len(p.args) - 1)
                     ELSE p.args)

\* the builtins of the model (BUILTINS, restricted)
BuiltinNames ==
    {<<"e", "c", "h", "o">>, <<"c", "a", "t">>, <<"p", "w", "d">>, <<"c", "d">>, <<"e", "x", "p", "o", "r", "t">>, <<"u", "n", "s", "e", "t">>, <<"t", "e", "s", "t">>, <<"[">>}

\* Process.execute: 127 when get_builtin found no executor
ProcessExecute(p) ==
    IF p.command \notin BuiltinNames
    THEN Result(p, 127, <<>>,
                <<"E", "r", "r", "o", "r", ":", " ", "N", "o", " ", "e", "x", "e", "c", "u", "t", "o", "r", " ", "f", "o", "r", " ", "c", "o", "m", "m", "a", "n", "d", " ", "'">> \o p.command \o <<"'", "\n">>)
    ELSE CASE p.command = <<"e", "c", "h", "o">> -> cmd_echo(p)
           [] p.command = <<"c", "a", "t">> -> cmd_cat(p)
           [] p.command = <<"p", "w", "d">> -> cmd_pwd(p)
           [] p.command = <<"c", "d">> -> cmd_cd(p)
           [] p.command = <<"e", "x", "p", "o", "r", "t">> -> cmd_export(p)
           [] p.command = <<"u", "n", "s", "e", "t">> -> cmd_unset(p)
           [] p.command \in {<<"t", "e", "s", "t">>, <<"[">>} -> cmd_test(p)

\* the @command flags of builtins.py
needs_path_resolution(cmd) == cmd \in {<<"c", "a", "t">>, <<"c", "d">>, <<"t", "e", "s", "t">>}
supports_streaming(cmd) == cmd \in {<<"c", "a", "t">>}
changes_cwd(cmd) == cmd = <<"c", "d">>

(***************************************************************************)
(* Expansion (agfs_shell2/shell.py)                                        *)
(*                                                                         *)
(* The state of a session while a statement runs is a record st:           *)
(*   env, cwd    Shell.env and Shell.cwd                                   *)
(*   files       the files of the server                                   *)
(*   tty         the chunks waiting on the real standard input             *)
(*   out, err    what the statement printed on the terminal                *)
(*   stages      one entry per process run by Pipeline.execute, tty_read   *)
(*               being what it took from the real standard input           *)
(*   writes      one entry per write_file call, before being the content   *)
(*               of the file when the call was made (None for no file)     *)
(*   execs       one entry per command line that reached the parser        *)
(*   interrupted Ctrl+C was pressed while the statement ran                *)
(*   raised      a KeyboardInterrupt is on its way out of Shell.execute    *)
(***************************************************************************)

\* "Resolve relative paths in arguments": flags are skipped
ResolveArgs(cmd, args, c) ==
    IF needs_path_resolution(cmd)
    THEN [i \in 1..Len(args) |->
             IF StartsWith(args[i], <<"-">>) THEN args[i] ELSE resolve_path(c, args[i])]
    ELSE args

MakeProcess(cmd, args, stdin, st) ==
    [command |-> cmd, args |-> ResolveArgs(cmd, args, st.cwd), stdin |-> stdin,
     env |-> st.env, cwd |-> st.cwd, files |-> st.files, tty |-> st.tty]

\* Python computes a value before the statement that uses it starts: r is
\* computed, and then e
Then(r, e) == IF r = r THEN e ELSE e

RECURSIVE SubstRun(_, _, _, _)

\* stage k of a command substitution has run with result r
SubstStage(commands, k, st1, r) ==
    IF k = Len(commands) THEN [out |-> r.out, st |-> st1]
    ELSE SubstRun(commands, k + 1, r.out, st1)

\* process k of a command substitution has run with result r: the next one
\* reads what it wrote
SubstRan(commands, k, st, r) ==
    SubstStage(commands, k, [st EXCEPT !.env = r.env, !.tty = r.tty], r)

\* the processes of a command substitution, run in order from stage k, each
\* reading what the one before wrote: [out, st]
SubstRun(commands, k, stdin, st) ==
    SubstRan(commands, k, st,
             ProcessExecute(MakeProcess(commands[k].cmd, commands[k].args, stdin, st)))

\* "Remove trailing newline (like bash does)"
SubstOutput(r) ==
    [text |-> IF EndsWith(r.out, <<"\n">>) THEN SubSeq(r.out, 1, Len(r.out) - 1) ELSE r.out,
     st |-> r.st]

\* a command substitution whose command parsed to the pipeline commands
SubstCommands(commands, st) ==
    IF commands = <<>> THEN [text |-> <<>>, st |-> st]
    ELSE SubstOutput(SubstRun(commands, 1, <<>>, st))

\* Shell._execute_command_substitution: [text, st].  The command is parsed
\* without expansion, its redirections are dropped, and one trailing newline
\* of the output is removed.
execute_command_substitution(command, st) ==
    SubstCommands(parse_command_line(command).commands, st)

\* the match of one command substitution that starts at j, n the length of
\* its opener and b the length of its body
SubstMatchAt(text, j, n, b) ==
    [found |-> TRUE, start |-> j, end |-> j + n + b,
     body |-> SubSeq(text, j + n, j + n + b - 1)]

\* re.search(open ([^close]+) close, text): [found, start, end, body]
SubstMatch(text, open, close) ==
    LET n == Len(open)
        body(j) == SpanNot(Drop(text, j + n - 1), {close})
        cand == {j \in Occurrences(text, open) :
                    body(j) >= 1 /\ j + n + body(j) <= Len(text)}
    IN  IF cand = {} THEN [found |-> FALSE]
        ELSE SubstMatchAt(text, Min(cand), n, body(Min(cand)))

RECURSIVE SubstAll(_, _, _, _)

\* the text before a match, the output that replaces the match, and the
\* rest of the text with its own substitutions made
SubstJoined(before, rest) ==
    [text |-> before \o rest.text, st |-> rest.st]

\* the command of the match m has run with result r
SubstReplaced(text, open, close, m, r) ==
    Then(r, SubstJoined(SubSeq(text, 1, m.start - 1) \o r.text,
                        SubstAll(Drop(text, m.end), r.st, open, close)))

\* the first command substitution of the text searched: m is the match
SubstSearched(text, st, open, close, m) ==
    IF ~m.found THEN [text |-> text, st |-> st]
    ELSE SubstReplaced(text, open, close, m, execute_command_substitution(m.body, st))

\* re.sub over the command substitutions of one form, left to right: [text, st]
SubstAll(text, st, open, close) ==
    SubstSearched(text, st, open, close, SubstMatch(text, open, close))

\* [A-Za-z_][A-Za-z0-9_]* at the start of s: the length matched, 0 for no match
NameSpan(s) ==
    IF s # <<>> /\ s[1] \in Letters \cup {"_"} THEN Span(s, WordChars) ELSE 0

RECURSIVE ExpandBraced(_, _)
\* re.sub(r'\$\{([A-Za-z_][A-Za-z0-9_]*)\}', env.get(name, ''), text)
ExpandBraced(text, env) ==
    LET ok(j) == /\ NameSpan(Drop(text, j + 1)) >= 1
                 /\ j + 2 + NameSpan(Drop(text, j + 1)) <= Len(text)
                 /\ text[j + 2 + NameSpan(Drop(text, j + 1))] = "}"
        cand == {j \in Occurrences(text, <<"$", "{">>) : ok(j)}
    IN  IF cand = {} THEN text
        ELSE LET j == Min(cand)
                 n == NameSpan(Drop(text, j + 1))
             IN  SubSeq(text, 1, j - 1)
                 \o EnvGet(env, SubSeq(text, j + 2, j + 1 + n), <<>>)
                 \o ExpandBraced(Drop(text, j + 2 + n), env)

RECURSIVE ExpandSimple(_, _)
\* re.sub(r'\$([A-Za-z_][A-Za-z0-9_]*)', env.get(name, ''), text)
ExpandSimple(text, env) ==
    LET cand == {j \in Occurrences(text, <<"$">>) : NameSpan(Drop(text, j)) >= 1}
    IN  IF cand = {} THEN text
        ELSE LET j == Min(cand)
                 n == NameSpan(Drop(text, j))
             IN  SubSeq(text, 1, j - 1)
                 \o EnvGet(env, SubSeq(text, j + 1, j + n), <<>>)
                 \o ExpandSimple(Drop(text, j + n), env)



\* the last two passes of _expand_variables, ${NAME} and then $NAME, on the
\* result r of the command substitutions
ExpandNames(r) ==
    Then(r, [text |-> ExpandSimple(ExpandBraced(r.text, r.st.env), r.st.env), st |-> r.st])

\* the `...` pass of _expand_variables on the result r of the $(...) pass
ExpandBackticks(r) == Then(r, ExpandNames(SubstAll(r.text, r.st, <<Backtick>>, Backtick)))

\* Shell._expand_variables: [text, st].  It works on the text it is given,
\* quotes included: $?, then $(...), then `...`, then ${NAME}, then $NAME.
expand_variables(text, st) ==
    ExpandBackticks(SubstAll(ReplaceAll(text, <<"$", "?">>, EnvGet(st.env, <<"?">>, <<"0">>)),
                             st, <<"$", "(">>, ")"))

RECURSIVE FnMatch(_, _)
\* fnmatch.fnmatch(name, pat) for patterns of literals, * and ?
FnMatch(name, pat) ==
    IF pat = <<>> THEN name = <<>>
    ELSE IF pat[1] = "*"
    THEN FnMatch(name, Tail(pat)) \/ (name # <<>> /\ FnMatch(Tail(name), pat))
    ELSE IF pat[1] = "?" THEN name # <<>> /\ FnMatch(Tail(name), Tail(pat))
    ELSE name # <<>> /\ name[1] = pat[1] /\ FnMatch(Tail(name), Tail(pat))

\* Shell._match_glob_pattern: the set of matching full paths
match_glob_pattern(pattern, st) ==
    LET dir_path == IF StartsWith(pattern, Slash)
                    THEN (IF Dirname(pattern) = <<>> THEN Slash ELSE Dirname(pattern))
                    ELSE st.cwd
        file_pattern == IF StartsWith(pattern, Slash) THEN Basename(pattern) ELSE pattern
        entries == list_directory(st.files, dir_path)
    IN  IF ~entries.ok THEN {}
        ELSE {(IF dir_path = Slash THEN Slash ELSE dir_path \o Slash) \o name :
                 name \in {e \in entries.names : FnMatch(e, file_pattern)}}

RECURSIVE GlobArgs(_, _)
GlobArgs(args, st) ==
    IF args = <<>> THEN <<>>
    ELSE LET arg == Head(args)
             matches == match_glob_pattern(arg, st)
         IN  (IF (\E i \in 1..Len(arg) : arg[i] \in {"*", "?", "["}) /\ matches # {}
              THEN Sorted(matches) ELSE <<arg>>)
             \o GlobArgs(Tail(args), st)

\* Shell._expand_globs
expand_globs(commands, st) ==
    [k \in 1..Len(commands) |->
        [cmd |-> commands[k].cmd, args |-> GlobArgs(commands[k].args, st)]]

(***************************************************************************)
(* Execution (agfs_shell2/pipeline.py, shell.py)                           *)
(***************************************************************************)

RECURSIVE PipelineExecute(_, _, _, _, _)

\* stage k has run with result r and left the state st1: it was the last
\* stage, or the next stage reads its stdout
PipelineNext(commands, k, errs, st1, r) ==
    IF k = Len(commands)
    THEN [code |-> r.code, out |-> r.out, err |-> errs \o r.err, st |-> st1]
    ELSE PipelineExecute(commands, k + 1, r.out, errs \o r.err, st1)

\* the process p of stage k has run with result r
PipelineRan(commands, k, stdin, errs, st, p, r) ==
    PipelineNext(commands, k, errs,
                 [st EXCEPT !.env = r.env, !.tty = r.tty,
                            !.interrupted =
                                @ \/ (Len(r.tty) < Len(st.tty) - BeforeCtrlC(st.tty)),
                            !.stages = Append(@, [command |-> p.command, args |-> p.args,
                                                  stdin |-> stdin, stdout |-> r.out,
                                                  code |-> r.code,
                                                  tty_read |-> SubSeq(p.tty, 1, Len(p.tty) - Len(r.tty))])],
                 r)

\* "process.execute()" for the process p of stage k
PipelineStage(commands, k, stdin, errs, st, p) ==
    PipelineRan(commands, k, stdin, errs, st, p, ProcessExecute(p))

\* a Pipeline.execute that forgets to connect the stages: every stage after
\* the first reads an empty stdin
PipelineExecuteUnwired(commands, k, stdin, errs, st) ==
    LET Run[j \in 1..Len(commands)] ==
            LET before == IF j = 1 THEN [err |-> errs, st |-> st] ELSE Run[j - 1]
                inp == IF j = 1 THEN stdin ELSE <<>>
                p == MakeProcess(commands[j].cmd, commands[j].args, inp, before.st)
                r == ProcessExecute(p)
            IN  [code |-> r.code, out |-> r.out, err |-> before.err \o r.err,
                 st |-> [before.st EXCEPT
                            !.env = r.env, !.tty = r.tty,
                            !.stages = Append(@, [command |-> p.command, args |-> p.args,
                                                  stdin |-> inp, stdout |-> r.out,
                                                  code |-> r.code,
                                                  tty_read |-> SubSeq(p.tty, 1, Len(p.tty) - Len(r.tty))])]]
    IN  Run[Len(commands)]

\* Pipeline.execute from stage k on, stdin being what stage k reads (for k > 1
\* the stdout of stage k - 1) and errs the stderr gathered so far:
\* [code, out, err, st], the exit code and stdout of the last stage and the
\* stderr of all
PipelineExecute(commands, k, stdin, errs, st) ==
    PipelineStage(commands, k, stdin, errs, st,
                  MakeProcess(commands[k].cmd, commands[k].args, stdin, st))

\* the code of a result [code, st] with st.raised: the call did not return
NoExitCode == -1

\* the entry a command line leaves in st.execs when execute returns
Executed(st0, st, line, cd, code) ==
    [code |-> code,
     st |-> [st EXCEPT !.execs = Append(@, [line |-> line, before |-> st0.cwd,
                                            after |-> st.cwd, cd |-> cd,
                                            code |-> code])]]

\* the result of one write_file call w = [ok, files] of the shell
Written(st, path, data, append, w) ==
    [ok |-> w.ok,
     st |-> [st EXCEPT !.files = w.files,
                       !.writes = Append(@, [path |-> path, data |-> data,
                                             append |-> append, ok |-> w.ok,
                                             before |-> read_file(st.files, path)])]]

\* one write_file call of the shell: [ok, st]
ShellWrite(st, path, data, append) ==
    Written(st, path, data, append, write_file(st.files, path, data, append))

\* every chunk written in the mode of the redirection
ChunkAppendByMode(mode, is_first_chunk) == mode = "append"

\* "First chunk: overwrite or append based on mode; subsequent chunks:
\* always append"
ChunkAppend(mode, is_first_chunk) == mode = "append" \/ ~is_first_chunk

RECURSIVE StreamChunks(_, _, _, _)

\* one chunk of the streaming path was written with result w
StreamWritten(output_file, mode, w) ==
    IF ~w.ok THEN w ELSE StreamChunks(output_file, mode, FALSE, w.st)

\* the chunk loop of the direct streaming path: the first chunk is written in
\* the mode of the redirection, every later one is appended: [ok, st]; a
\* KeyboardInterrupt of the read is raised
StreamChunks(output_file, mode, is_first_chunk, st) ==
    IF st.tty = <<>> THEN [ok |-> TRUE, st |-> st]
    ELSE IF Head(st.tty) = CtrlC
    THEN [ok |-> FALSE,
          st |-> [st EXCEPT !.tty = Tail(@), !.interrupted = TRUE, !.raised = TRUE]]
    ELSE StreamWritten(output_file, mode,
                       ShellWrite([st EXCEPT !.tty = Tail(@)], output_file, Head(st.tty),
                                  ChunkAppend(mode, is_first_chunk)))

\* a cd branch taken whenever some stage is cd
AnyStageCd(commands) == \E k \in 1..Len(commands) : changes_cwd(commands[k].cmd)

\* the condition of the cd branch: "must be a single command, not in pipeline"
IsCdStatement(commands) == Len(commands) = 1 /\ changes_cwd(commands[1].cmd)

\* the cd branch with the target resolved: the directory is listed, and cwd
\* is set when the listing succeeds
ChangeDir(line, st0, st, resolved_path) ==
    IF list_directory(st.files, resolved_path).ok
    THEN Executed(st0, [st EXCEPT !.cwd = resolved_path], line, TRUE, 0)
    ELSE Executed(st0, [st EXCEPT !.diag = Append(@, "cd")], line, TRUE, 1)

\* Shell.execute, the cd branch
ExecuteCd(line, commands, st0, st) ==
    ChangeDir(line, st0, st,
              resolve_path(st.cwd, IF commands[1].args # <<>> THEN commands[1].args[1]
                                   ELSE Slash))

\* "shell: <error>" and exit code 1
Failed(line, st0, st) ==
    Executed(st0, [st EXCEPT !.diag = Append(@, "shell")], line, FALSE, 1)

\* the stderr file was written with result e
StderrWritten(line, st0, code, e) ==
    IF ~e.ok THEN Failed(line, st0, e.st) ELSE Executed(st0, e.st, line, FALSE, code)

\* "Handle error redirection (2>)": a is [st, code, err], the state, exit
\* code and stderr once the stdout of the statement went where it goes
ExecuteStderr(line, redirections, st0, a) ==
    IF redirections.stderr # None
    THEN StderrWritten(line, st0, a.code,
                       ShellWrite(a.st, resolve_path(a.st.cwd, redirections.stderr), a.err,
                                  redirections.stderr_mode = "append"))
    ELSE Executed(st0, [a.st EXCEPT !.err = @ \o a.err], line, FALSE, a.code)

\* the stdout file was written with result w
StdoutWritten(line, redirections, st0, r, w) ==
    IF ~w.ok THEN Failed(line, st0, w.st)
    ELSE ExecuteStderr(line, redirections, st0,
                       [st |-> w.st, code |-> r.code, err |-> r.err])

\* "Output handling": stdout goes to the terminal, in interactive mode with a
\* newline after output that does not end with one
Printed(r) ==
    [r.st EXCEPT !.out = @ \o r.out
                           \o (IF r.st.interactive /\ r.out # <<>>
                                  /\ ~EndsWith(r.out, <<"\n">>)
                               THEN <<"\n">> ELSE <<>>)]

\* the pipeline has run with result r: "Handle output redirection (>)"
PipelineDone(line, redirections, st0, r) ==
    IF redirections.stdout # None
    THEN StdoutWritten(line, redirections, st0, r,
                       ShellWrite(r.st, resolve_path(r.st.cwd, redirections.stdout), r.out,
                                  redirections.stdout_mode = "append"))
    ELSE ExecuteStderr(line, redirections, st0,
                       [st |-> Printed(r), code |-> r.code, err |-> r.err])

\* the chunk loop of the streaming path has ended with result s: neither
\* except clause of the loop catches a KeyboardInterrupt, which leaves
\* Shell.execute with no exit code
Streamed(line, redirections, st0, s) ==
    IF s.st.raised THEN [code |-> NoExitCode, st |-> s.st]
    ELSE IF ~s.ok THEN Failed(line, st0, s.st)
    ELSE ExecuteStderr(line, redirections, st0, [st |-> s.st, code |-> 0, err |-> <<>>])

\* Shell.execute from "Build processes" to its end; stdin_data is None or the
\* content read for a < redirection
ExecutePipeline(line, commands, redirections, stdin_data, st0, st) ==
    IF /\ redirections.stdout # None
       /\ Len(commands) = 1
       /\ supports_streaming(commands[1].cmd)
       /\ commands[1].args = <<>>
       /\ stdin_data = None
    THEN Streamed(line, redirections, st0,
                  StreamChunks(resolve_path(st.cwd, redirections.stdout),
                               redirections.stdout_mode, TRUE, st))
    ELSE PipelineDone(line, redirections, st0,
                      PipelineExecute(commands, 1,
                                      IF stdin_data = None THEN <<>> ELSE stdin_data,
                                      <<>>, st))

\* "Handle input redirection (<)": stdin_data is the content of the input
\* file, None when there is no < or the file cannot be read
ExecuteInput(line, commands, redirections, stdin_data, st0, st) ==
    IF redirections.stdin # None /\ stdin_data = None THEN Failed(line, st0, st)
    ELSE ExecutePipeline(line, commands, redirections, stdin_data, st0, st)

\* Shell.execute with the command line parsed and its globs expanded
ExecuteCommands(line, commands, redirections, st0, st) ==
    IF commands = <<>> THEN Executed(st0, st, line, FALSE, 0)
    ELSE IF IsCdStatement(commands) THEN ExecuteCd(line, commands, st0, st)
    ELSE ExecuteInput(line, commands, redirections,
                      IF redirections.stdin # None
                      THEN read_file(st.files, resolve_path(st.cwd, redirections.stdin))
                      ELSE None,
                      st0, st)

\* Shell.execute with the command line parsed
ExecuteParsed(line, parsed, st0, st) ==
    Then(parsed,
         ExecuteCommands(line, expand_globs(parsed.commands, st), parsed.redirections, st0, st))

\* Shell.execute with the variables of the command line expanded
ExecuteExpanded(line, st0, x) ==
    Then(x, ExecuteParsed(line, parse_command_line(x.text), st0, x.st))

\* Shell.execute from "Expand variables in command line" on
ExecuteCommand(command_line, st0) ==
    ExecuteExpanded(command_line, st0, expand_variables(command_line, st0))

\* the variable-assignment test of Shell.execute: NAME=value with a name of
\* letters, digits and underscores
IsAssignment(command_line) ==
    LET var_name == Strip(SubSeq(command_line, 1, IndexOf(command_line, "=") - 1))
    IN  /\ IndexOf(command_line, "=") > 0
        /\ ~StartsWith(Strip(command_line), <<"=">>)
        /\ var_name # <<>>
        /\ IsAlnum(ReplaceAll(var_name, <<"_">>, <<>>))
        /\ ~(\E i \in 1..Len(var_name) : var_name[i] = " ")

\* "Remove outer quotes if present"
AssignedText(v) ==
    IF Len(v) >= 2 /\ \/ (v[1] = "\"" /\ v[Len(v)] = "\"")
                      \/ (v[1] = "'" /\ v[Len(v)] = "'")
    THEN SubSeq(v, 2, Len(v) - 1) ELSE v

\* the assignment with its value expanded to x
Assigned(command_line, st0, var_name, x) ==
    Executed(st0, [x.st EXCEPT !.env = EnvSet(@, var_name, x.text)], command_line, FALSE, 0)

\* the assignment split at its first =
AssignAt(command_line, st0, eq) ==
    Assigned(command_line, st0, Strip(SubSeq(command_line, 1, eq - 1)),
             expand_variables(AssignedText(Strip(Drop(command_line, eq))), st0))

\* Shell.execute, the assignment: outer quotes are removed, the value is
\* expanded and stored
ExecuteAssignment(command_line, st0) ==
    AssignAt(command_line, st0, IndexOf(command_line, "="))

\* the internal exit codes with which execute asks the REPL for more lines
NeedFor == 0 - 997
NeedIf == 0 - 998
NeedHeredoc == 0 - 999

RECURSIVE execute(_, _)
RECURSIVE execute_for_loop(_, _)
RECURSIVE execute_if_statement(_, _)

StripLines(lines) == [k \in 1..Len(lines) |-> Strip(lines[k])]

\* "return result if result['var'] else None"
ForParsed(res) ==
    IF res.var # None /\ res.var # <<>>
    THEN [ok |-> TRUE, var |-> res.var, items |-> res.items,
          commands |-> res.commands, st |-> res.st]
    ELSE [ok |-> FALSE, st |-> res.st]

RECURSIVE ParseForLoop(_, _, _, _, _)

\* the header "for var in items" parsed, its items expanded to x
ParseForItems(lines, i, state, res, var, x) ==
    Then(x, ParseForLoop(lines, i + 1, state, TRUE,
                         [res EXCEPT !.var = var, !.items = SplitWs(x.text), !.st = x.st]))

\* the header with its "do" removed: at is where " in " stands in parts
ParseForIn(lines, i, state, res, parts, at) ==
    IF at = 0 THEN [ok |-> FALSE, st |-> res.st]
    ELSE ParseForItems(lines, i, state, res, Strip(SubSeq(parts, 1, at - 1)),
                       expand_variables(Strip(Drop(parts, at + 3)), res.st))

\* the first for line of the loop, parts0 being what follows "for "
ParseForHeader(lines, i, state, res, parts0, parts) ==
    ParseForIn(lines, i,
               IF EndsWith(parts0, <<";", " ", "d", "o">>) \/ EndsWith(parts0, <<" ", "d", "o">>) THEN "do" ELSE state,
               res, parts, Find(parts, <<" ", "i", "n", " ">>))

\* the header without a trailing "; do" or " do"
ForHeaderParts(parts0) ==
    IF EndsWith(parts0, <<";", " ", "d", "o">>) THEN Strip(SubSeq(parts0, 1, Len(parts0) - 4))
    ELSE IF EndsWith(parts0, <<" ", "d", "o">>) THEN Strip(SubSeq(parts0, 1, Len(parts0) - 3))
    ELSE parts0

\* a nested for inside the body: its lines are taken up to the first done
ParseNestedFor(lines, i, res, line, dones) ==
    ForParsed([res EXCEPT !.commands =
                  @ \o <<line>>
                    \o StripLines(SubSeq(lines, i + 1,
                                         IF dones = {} THEN Len(lines) ELSE Min(dones)))])

\* the loop of _parse_for_loop at the stripped line of index i
ParseForLine(lines, i, state, first_for_parsed, res, line) ==
    IF line = <<>> \/ StartsWith(line, <<"#">>)
    THEN ParseForLoop(lines, i + 1, state, first_for_parsed, res)
    ELSE IF line = <<"d", "o", "n", "e">> THEN ForParsed(res)
    ELSE IF line = <<"d", "o">>
    THEN ParseForLoop(lines, i + 1, "do", first_for_parsed, res)
    ELSE IF StartsWith(line, <<"d", "o", " ">>)
    THEN ParseForLoop(lines, i + 1, "do", first_for_parsed,
             IF Strip(Drop(line, 3)) # <<>>
             THEN [res EXCEPT !.commands = Append(@, Strip(Drop(line, 3)))]
             ELSE res)
    ELSE IF StartsWith(line, <<"f", "o", "r", " ">>)
    THEN IF ~first_for_parsed
         THEN ParseForHeader(lines, i, state, res, Strip(Drop(line, 4)),
                             ForHeaderParts(Strip(Drop(line, 4))))
         ELSE IF state = "do"
         THEN ParseNestedFor(lines, i, res, line,
                  {j \in (i + 1)..Len(lines) : Strip(lines[j]) = <<"d", "o", "n", "e">>})
         ELSE ParseForLoop(lines, i + 1, state, first_for_parsed, res)
    ELSE ParseForLoop(lines, i + 1, state, first_for_parsed,
             IF state = "do" THEN [res EXCEPT !.commands = Append(@, line)]
             ELSE res)

\* the loop of _parse_for_loop at line i, res being [var, items, commands, st].
\* A nested for inside the body is collected up to its done, and the done it
\* stops at is then read again as the end of the loop being parsed.
ParseForLoop(lines, i, state, first_for_parsed, res) ==
    IF i > Len(lines) THEN ForParsed(res)
    ELSE ParseForLine(lines, i, state, first_for_parsed, res, Strip(lines[i]))

\* Shell._parse_for_loop: [ok, var, items, commands, st], ok FALSE for None
parse_for_loop(lines, st) ==
    ParseForLoop(lines, 1, "for", FALSE,
                 [var |-> None, items |-> <<>>, commands |-> <<>>, st |-> st])

RECURSIVE CollectNested(_, _, _, _, _, _)
\* the collection of a nested construct inside a body: from index i on,
\* lines are taken until the closer that brings the depth to 0: [lines, i],
\* i the index at which the collection stopped
CollectNested(commands, i, depth, acc, opener, closer) ==
    IF i > Len(commands) THEN [lines |-> acc, i |-> i]
    ELSE LET next_cmd == commands[i]
             d == IF StartsWith(Strip(next_cmd), opener) THEN depth + 1
                  ELSE IF Strip(next_cmd) = closer THEN depth - 1
                  ELSE depth
         IN  IF Strip(next_cmd) = closer /\ ~StartsWith(Strip(next_cmd), opener) /\ d = 0
             THEN [lines |-> Append(acc, next_cmd), i |-> i]
             ELSE CollectNested(commands, i + 1, d, Append(acc, next_cmd), opener, closer)

RECURSIVE ForBody(_, _, _, _)

\* a command of the body has run with result r: the loop goes on at command i
ForNext(commands, i, r) ==
    Then(r, IF r.st.raised THEN r ELSE ForBody(commands, i, r.code, r.st))

\* a nested for collected as n = [lines, i]
ForNestedFor(commands, n, st) ==
    ForNext(commands, n.i + 1, execute_for_loop(n.lines, st))

\* a nested if collected as n = [lines, i]
ForNestedIf(commands, n, st) ==
    ForNext(commands, n.i + 1, execute_if_statement(n.lines, st))

\* the while loop of execute_for_loop over the body, from command i: [code, st]
ForBody(commands, i, last_exit_code, st) ==
    IF i > Len(commands) THEN [code |-> last_exit_code, st |-> st]
    ELSE IF StartsWith(Strip(commands[i]), <<"f", "o", "r", " ">>)
    THEN ForNestedFor(commands,
                      CollectNested(commands, i + 1, 1, <<commands[i]>>, <<"f", "o", "r", " ">>, <<"d", "o", "n", "e">>),
                      st)
    ELSE IF StartsWith(Strip(commands[i]), <<"i", "f", " ">>)
    THEN ForNestedIf(commands,
                     CollectNested(commands, i + 1, 1, <<commands[i]>>, <<"i", "f", " ">>, <<"f", "i">>),
                     st)
    ELSE ForNext(commands, i + 1, execute(commands[i], st))

RECURSIVE ForItems(_, _, _, _, _, _)

\* the body has run for item k with result r
ForItemDone(var_name, items, k, commands, r) ==
    Then(r, IF r.st.raised THEN r
            ELSE ForItems(var_name, items, k + 1, commands, r.code, r.st))

\* the loop of execute_for_loop over the items, from item k
ForItems(var_name, items, k, commands, last_exit_code, st) ==
    IF k > Len(items) THEN [code |-> last_exit_code, st |-> st]
    ELSE ForItemDone(var_name, items, k, commands,
                     ForBody(commands, 1, last_exit_code,
                             [st EXCEPT !.env = EnvSet(@, var_name, items[k])]))

\* execute_for_loop with the lines parsed
ForRun(parsed) ==
    IF ~parsed.ok THEN [code |-> 1, st |-> parsed.st]
    ELSE ForItems(parsed.var, parsed.items, 1, parsed.commands, 0, parsed.st)

\* Shell.execute_for_loop: [code, st]
execute_for_loop(lines, st) == ForRun(parse_for_loop(lines, st))

\* the condition of an if or elif line: a trailing ` then` and then trailing
\* semicolons are removed
IfCondition(rest) ==
    LET condition_part == Strip(rest)
        has_then == EndsWith(condition_part, <<" ", "t", "h", "e", "n">>)
        c == IF has_then THEN Strip(SubSeq(condition_part, 1, Len(condition_part) - 5))
             ELSE condition_part
        n == Len(c) - Span([k \in 1..Len(c) |-> c[Len(c) + 1 - k]], {";"})
    IN  [has_then |-> has_then, condition |-> SubSeq(c, 1, n)]

RECURSIVE ParseIfStatement(_, _, _)
\* the loop of _parse_if_statement at line i; s is [conditions, else_block,
\* has_else, current_block, current_condition, state]
ParseIfStatement(lines, i, s) ==
    IF i > Len(lines) THEN s
    ELSE LET line == Strip(lines[i])
             saved == IF s.current_condition # None
                      THEN Append(s.conditions,
                                  [condition |-> s.current_condition,
                                   block |-> s.current_block])
                      ELSE s.conditions
             c == IfCondition(IF StartsWith(line, <<"e", "l", "i", "f", " ">>) THEN Drop(line, 5)
                              ELSE Drop(line, 3))
         IN  IF line = <<>> \/ StartsWith(line, <<"#">>)
             THEN ParseIfStatement(lines, i + 1, s)
             ELSE IF line = <<"f", "i">>
             THEN IF s.state = "then" /\ s.current_condition # None
                  THEN [s EXCEPT !.conditions = saved]
                  ELSE IF s.state = "else"
                  THEN [s EXCEPT !.else_block = s.current_block, !.has_else = TRUE]
                  ELSE s
             ELSE IF line = <<"t", "h", "e", "n">>
             THEN ParseIfStatement(lines, i + 1,
                      [s EXCEPT !.state = "then", !.current_block = <<>>])
             ELSE IF StartsWith(line, <<"t", "h", "e", "n", " ">>)
             THEN ParseIfStatement(lines, i + 1,
                      [s EXCEPT !.state = "then",
                                !.current_block = IF Strip(Drop(line, 5)) # <<>>
                                                  THEN <<Strip(Drop(line, 5))>> ELSE <<>>])
             ELSE IF StartsWith(line, <<"e", "l", "i", "f", " ">>)
             THEN ParseIfStatement(lines, i + 1,
                      [s EXCEPT !.conditions = saved,
                                !.current_condition = c.condition,
                                !.state = IF c.has_then THEN "then" ELSE "if",
                                !.current_block = <<>>])
             ELSE IF line = <<"e", "l", "s", "e">>
             THEN ParseIfStatement(lines, i + 1,
                      [s EXCEPT !.conditions = saved, !.state = "else",
                                !.current_block = <<>>, !.current_condition = None])
             ELSE IF StartsWith(line, <<"e", "l", "s", "e", " ">>)
             THEN ParseIfStatement(lines, i + 1,
                      [s EXCEPT !.conditions = saved, !.state = "else",
                                !.current_block = IF Strip(Drop(line, 5)) # <<>>
                                                  THEN <<Strip(Drop(line, 5))>> ELSE <<>>,
                                !.current_condition = None])
             ELSE IF StartsWith(line, <<"i", "f", " ">>)
             THEN ParseIfStatement(lines, i + 1,
                      [s EXCEPT !.current_condition = c.condition,
                                !.state = IF c.has_then THEN "then" ELSE "if",
                                !.current_block = IF c.has_then THEN <<>> ELSE @])
             ELSE ParseIfStatement(lines, i + 1,
                      IF s.state \in {"then", "else"}
                      THEN [s EXCEPT !.current_block = Append(@, line)]
                      ELSE s)

\* Shell._parse_if_statement: [conditions, else_block, has_else, ...]
parse_if_statement(lines) ==
    ParseIfStatement(lines, 1,
        [conditions |-> <<>>, else_block |-> <<>>, has_else |-> FALSE,
         current_block |-> <<>>, current_condition |-> None, state |-> "if"])

RECURSIVE RunBlock(_, _, _, _)

\* command i of the block has run with result r
RunBlockNext(block, i, r) ==
    Then(r, IF r.st.raised THEN r ELSE RunBlock(block, i + 1, r.code, r.st))

\* "for cmd in commands_block: last_exit_code = self.execute(cmd)"
RunBlock(block, i, last_exit_code, st) ==
    IF i > Len(block) THEN [code |-> last_exit_code, st |-> st]
    ELSE RunBlockNext(block, i, execute(block[i], st))

RECURSIVE IfConditions(_, _, _)

\* a loop over the conditions that takes the block of the first condition
\* whatever its exit code
IfConditionDoneAlways(parsed, k, r) ==
    [found |-> TRUE, block |-> parsed.conditions[k].block, st |-> r.st]

\* condition k has run with result r: its block is the one to run when it
\* returned 0
IfConditionDone(parsed, k, r) ==
    IF r.st.raised THEN [found |-> FALSE, block |-> <<>>, st |-> r.st]
    ELSE IF r.code = 0 THEN [found |-> TRUE, block |-> parsed.conditions[k].block, st |-> r.st]
    ELSE IfConditions(parsed, k + 1, r.st)

\* the loop of execute_if_statement over the conditions, from condition k:
\* [found, block, st], the block to run, which is the else block (empty when
\* there is none) when no condition returned 0
IfConditions(parsed, k, st) ==
    IF k > Len(parsed.conditions)
    THEN [found |-> FALSE, block |-> parsed.else_block, st |-> st]
    ELSE IfConditionDone(parsed, k, execute(parsed.conditions[k].condition, st))

\* the block chosen by the conditions is run
IfBlock(chosen) ==
    Then(chosen, IF chosen.st.raised THEN [code |-> NoExitCode, st |-> chosen.st]
                 ELSE RunBlock(chosen.block, 1, 0, chosen.st))

\* Shell.execute_if_statement: [code, st]
execute_if_statement(lines, st) == IfBlock(IfConditions(parse_if_statement(lines), 1, st))

\* Shell.execute: [code, st]
execute(command_line, st) ==
    IF StartsWith(Strip(command_line), <<"f", "o", "r", " ">>)
    THEN IF HasWord(command_line, <<"d", "o", "n", "e">>)
         THEN execute_for_loop(StripAll(SplitSemi(command_line)), st)
         ELSE [code |-> NeedFor, st |-> st]
    ELSE IF StartsWith(Strip(command_line), <<"i", "f", " ">>)
    THEN IF HasWord(command_line, <<"f", "i">>)
         THEN execute_if_statement(StripAll(SplitSemi(command_line)), st)
         ELSE [code |-> NeedIf, st |-> st]
    ELSE IF IsAssignment(command_line) THEN ExecuteAssignment(command_line, st)
    ELSE ExecuteCommand(command_line, st)

(***************************************************************************)
(* The REPL and script mode (agfs_shell2/shell.py repl, cli.py)            *)
(***************************************************************************)

RECURSIVE QuoteScan(_, _, _, _, _)
\* the quote loop of _needs_more_input: some quote is left open at the end.
\* A run of characters that are no quote and no backslash is read in one step.
QuoteScan(line, i, in_single_quote, in_double_quote, escape_next) ==
    IF i > Len(line) THEN in_single_quote \/ in_double_quote
    ELSE IF escape_next THEN QuoteScan(line, i + 1, in_single_quote, in_double_quote, FALSE)
    ELSE IF line[i] = "\\"
    THEN QuoteScan(line, i + 1, in_single_quote, in_double_quote, TRUE)
    ELSE IF line[i] = "\"" /\ ~in_single_quote
    THEN QuoteScan(line, i + 1, in_single_quote, ~in_double_quote, FALSE)
    ELSE IF line[i] = "'" /\ ~in_double_quote
    THEN QuoteScan(line, i + 1, ~in_single_quote, in_double_quote, FALSE)
    ELSE IF line[i] \in {"\"", "'"}
    THEN QuoteScan(line, i + 1, in_single_quote, in_double_quote, FALSE)
    ELSE QuoteScan(line, i + SpanNot(Drop(line, i - 1), {"\\", "\"", "'"}),
                   in_single_quote, in_double_quote, FALSE)

Count(line, c) == Cardinality({i \in 1..Len(line) : line[i] = c})

\* Shell._needs_more_input
needs_more_input(line) ==
    \/ EndsWith(RStrip(line), <<"\\">>)
    \/ QuoteScan(line, 1, FALSE, FALSE, FALSE)
    \/ Count(line, "{") - Count(line, "}") > 0
    \/ Count(line, "(") - Count(line, ")") > 0

RECURSIVE JoinBuffer(_, _)
\* "Join lines: preserve newlines in quotes, remove backslash continuations"
JoinBuffer(buffer, i) ==
    IF i > Len(buffer) THEN <<>>
    ELSE (IF EndsWith(RStrip(buffer[i]), <<"\\">>)
          THEN SubSeq(RStrip(buffer[i]), 1, Len(RStrip(buffer[i])) - 1)
          ELSE buffer[i] \o (IF i < Len(buffer) THEN <<"\n">> ELSE <<>>))
         \o JoinBuffer(buffer, i + 1)

\* the state a statement starts in
Session(tty, interactive) ==
    [env |-> shenv, cwd |-> cwd, files |-> remote, tty |-> tty, out |-> <<>>,
     err |-> <<>>, diag |-> <<>>, stages |-> <<>>, writes |-> <<>>, execs |-> <<>>,
     interactive |-> interactive, interrupted |-> FALSE, raised |-> FALSE]

NoStatement == [done |-> FALSE, interrupted |-> FALSE]

\* no tailf runs
NoTailf == [file_size |-> 0, last_offset |-> 0, new_size |-> 0,
            shown |-> <<>>, printed |-> <<>>]

\* what is remembered of the top-level statement that just completed with
\* result r = [code, st]
Completed(lines, r) ==
    [done |-> TRUE, lines |-> lines, code |-> r.code, before |-> cwd,
     after |-> r.st.cwd, out |-> r.st.out, err |-> r.st.err, diag |-> r.st.diag,
     stages |-> r.st.stages, writes |-> r.st.writes, execs |-> r.st.execs,
     interrupted |-> r.st.interrupted, raised |-> r.st.raised]

\* the statement completed: the session takes the state it left; store is
\* whether the caller writes the exit code to env["?"]. A KeyboardInterrupt
\* that left the statement skips that write: the REPL prints ^C and prompts
\* again
Complete(lines, r, store) ==
    /\ shenv' = IF store /\ ~r.st.raised THEN EnvSet(r.st.env, <<"?">>, IntToStr(r.code))
                ELSE r.st.env
    /\ cwd' = r.st.cwd
    /\ remote' = r.st.files
    /\ stmt' = Completed(lines, r)

\* the statement typed at the prompt has run with result r: a for or if that
\* needs more lines starts the collection, anything else is a statement whose
\* exit code goes to env["?"] unless it is -998 or -999
Dispatched(command, r) ==
    IF r.code = NeedFor
    THEN pc' = "for" /\ buf' = <<command>> /\ for_depth' = 1
         /\ UNCHANGED <<shenv, cwd, remote, stmt>>
    ELSE IF r.code = NeedIf
    THEN pc' = "if" /\ buf' = <<command>> /\ for_depth' = 0
         /\ UNCHANGED <<shenv, cwd, remote, stmt>>
    ELSE /\ pc' = "prompt" /\ buf' = <<>> /\ for_depth' = 0
         /\ Complete(<<command>>, r, r.code \notin {NeedIf, NeedHeredoc})

\* the REPL with a complete command in hand: exit and quit leave, help and
\* an empty command go back to the prompt, anything else is executed
Dispatch(command, tty) ==
    /\ count' = count + 1
    /\ UNCHANGED <<runmode, status>>
    /\ IF command \in {<<"e", "x", "i", "t">>, <<"q", "u", "i", "t">>}
       THEN pc' = "exited" /\ buf' = <<>> /\ for_depth' = 0
            /\ UNCHANGED <<shenv, cwd, remote, stmt>>
       ELSE IF command = <<"h", "e", "l", "p">> \/ command = <<>>
       THEN pc' = "prompt" /\ buf' = <<>> /\ for_depth' = 0
            /\ UNCHANGED <<shenv, cwd, remote, stmt>>
       ELSE Dispatched(command, execute(command, Session(tty, TRUE)))

\* Shell.repl: a line typed at the primary prompt
ReplLine(line, tty) ==
    /\ runmode = "repl" /\ pc = "prompt"
    /\ count < MaxStatements
    /\ IF needs_more_input(line)
       THEN /\ pc' = "cont" /\ buf' = <<line>>
            /\ UNCHANGED <<runmode, status, shenv, cwd, remote, stmt, count, for_depth>>
       ELSE Dispatch(Strip(JoinBuffer(<<line>>, 1)), tty)

\* Shell.repl: a line typed at the continuation prompt
ReplContinuation(next_line, tty) ==
    /\ runmode = "repl" /\ pc = "cont"
    /\ IF needs_more_input(JoinWith(Append(buf, next_line), <<" ">>))
       THEN /\ buf' = Append(buf, next_line)
            /\ UNCHANGED <<runmode, status, shenv, cwd, remote, stmt, count, for_depth, pc>>
       ELSE Dispatch(Strip(JoinBuffer(Append(buf, next_line), 1)), tty)

\* Shell.repl: Ctrl+D or Ctrl+C at the continuation prompt cancels the input;
\* Ctrl+C while a for or if is being collected cancels the collection
ReplCancel ==
    /\ runmode = "repl" /\ pc \in {"cont", "for", "if"}
    /\ pc' = "prompt" /\ buf' = <<>> /\ for_depth' = 0
    /\ UNCHANGED <<runmode, status, shenv, cwd, remote, stmt, count>>

\* Shell.repl: Ctrl+D at the primary prompt
ReplEOF ==
    /\ runmode = "repl" /\ pc = "prompt"
    /\ pc' = "exited"
    /\ UNCHANGED <<runmode, status, shenv, cwd, remote, stmt, count, buf, for_depth>>

\* a line typed while a for loop is collected, d the depth after it
ReplForCollected(for_line, tty, d) ==
    IF Strip(for_line) = <<"d", "o", "n", "e">> /\ d = 0
    THEN /\ pc' = "prompt" /\ buf' = <<>> /\ for_depth' = 0
         /\ Complete(Append(buf, for_line),
                     execute_for_loop(Append(buf, for_line), Session(tty, TRUE)), TRUE)
    ELSE /\ buf' = Append(buf, for_line) /\ for_depth' = d
         /\ UNCHANGED <<pc, shenv, cwd, remote, stmt>>

\* Shell.repl: a line typed while a for loop is collected; the loop runs at
\* the done that closes the outermost for, and its exit code goes to env["?"]
ReplForLine(for_line, tty) ==
    /\ runmode = "repl" /\ pc = "for"
    /\ UNCHANGED <<runmode, status, count>>
    /\ ReplForCollected(for_line, tty,
                        IF StartsWith(Strip(for_line), <<"f", "o", "r", " ">>) THEN for_depth + 1
                        ELSE IF Strip(for_line) = <<"d", "o", "n", "e">> THEN for_depth - 1
                        ELSE for_depth)

\* Shell.repl: a line typed while an if statement is collected; the
\* statement runs at the first line that is fi
ReplIfLine(if_line, tty) ==
    /\ runmode = "repl" /\ pc = "if"
    /\ UNCHANGED <<runmode, status, count, for_depth>>
    /\ IF Strip(if_line) = <<"f", "i">>
       THEN /\ pc' = "prompt" /\ buf' = <<>>
            /\ Complete(Append(buf, if_line),
                        execute_if_statement(Append(buf, if_line), Session(tty, TRUE)), TRUE)
       ELSE /\ buf' = Append(buf, if_line)
            /\ UNCHANGED <<pc, shenv, cwd, remote, stmt>>

\* Shell.repl: Ctrl+D while a for or if is collected: a warning, and the
\* lines collected so far are executed
ReplBlockEOF(tty) ==
    /\ runmode = "repl" /\ pc \in {"for", "if"}
    /\ UNCHANGED <<runmode, status, count>>
    /\ pc' = "prompt" /\ buf' = <<>> /\ for_depth' = 0
    /\ Complete(buf, IF pc = "for" THEN execute_for_loop(buf, Session(tty, TRUE))
                     ELSE execute_if_statement(buf, Session(tty, TRUE)), TRUE)

\* a script that goes on to the next line after a failed statement
ScriptStatementContinue(line, r) ==
    /\ Complete(<<line>>, r, FALSE)
    /\ status' = r.code
    /\ pc' = pc

\* a line of the script has run with result r: a non-zero exit code ends
\* the run with that code; env["?"] is not written. A KeyboardInterrupt that
\* left the statement ends the run as well, with no exit code returned
ScriptStatement(line, r) ==
    /\ Complete(<<line>>, r, FALSE)
    /\ status' = r.code
    /\ pc' = IF r.code # 0 THEN "exited" ELSE pc

\* the stripped line of the script: blank lines and comments are skipped
ScriptExecute(line, tty) ==
    IF line = <<>> \/ StartsWith(line, <<"#">>)
    THEN UNCHANGED <<pc, status, shenv, cwd, remote, stmt>>
    ELSE ScriptStatement(line, execute(line, Session(tty, FALSE)))

\* execute_script_file: the next line of the script
ScriptLine(raw, tty) ==
    /\ runmode = "script" /\ pc = "script"
    /\ count < MaxStatements
    /\ count' = count + 1
    /\ UNCHANGED <<runmode, buf, for_depth>>
    /\ ScriptExecute(Strip(raw), tty)

\* execute_script_file: the end of the file
ScriptEnd ==
    /\ runmode = "script" /\ pc = "script"
    /\ pc' = "exited"
    /\ UNCHANGED <<runmode, status, shenv, cwd, remote, stmt, count, buf, for_depth>>

\* ---- engine ----
(***************************************************************************)
(* The path specification: cd and path resolution of both shells, over     *)
(* every path string up to MaxPathLen characters of PathAlphabet.  The     *)
(* remote server is the environment: whether it lists (or stats as a       *)
(* directory) the path it is handed is its choice.                         *)
(***************************************************************************)

MaxPathLen == 4

PathAlphabet == {"/", ".", "a"}

PathStrings == UNION {[1..n -> PathAlphabet] : n \in 0..MaxPathLen}

NoCall == <<"none">>

NoResolve == [p |-> <<>>, r |-> Slash, rr |-> Slash]

\* the variables of the agfs-shell2 session as they are when no session runs
Idle ==
    /\ runmode = "none" /\ shenv = <<>> /\ remote = <<>> /\ pc = "idle" /\ buf = <<>>
    /\ for_depth = 0 /\ count = 0 /\ status = 0 /\ stmt = [done |-> FALSE]
    /\ tailf = NoTailf

InitPath ==
    /\ shell \in {"shell2", "agfs-shell"}
    /\ Idle
    /\ cwd = Slash
    /\ current_path = Slash
    /\ clientPath = NoCall
    /\ rp = NoResolve

\* Shell.execute, the cd branch: `cd` (noArg) or `cd p`
ShellCd(noArg, p, listed) ==
    LET target == IF noArg THEN Slash ELSE p
        resolved_path == resolve_path(cwd, target)
    IN  /\ shell = "shell2"
        /\ Len(resolved_path) <= MaxPathLen
        /\ clientPath' = resolved_path
        /\ cwd' = IF listed THEN resolved_path ELSE cwd
        /\ rp' = NoResolve
        /\ UNCHANGED <<shell, current_path>>
        /\ UNCHANGED shellVars

\* CommandHandler.cmd_cd
HandlerCd(noArg, p, isDir) ==
    /\ shell = "agfs-shell"
    /\ rp' = NoResolve
    /\ UNCHANGED <<shell, cwd>>
    /\ UNCHANGED shellVars
    /\ IF noArg
       THEN /\ current_path' = Slash
            /\ clientPath' = NoCall
       ELSE LET path == agfs_resolve_path(current_path, p)
            IN  /\ Len(path) <= MaxPathLen
                /\ clientPath' = path
                /\ current_path' = IF isDir THEN path ELSE current_path

\* a path read back and resolved, then resolved again (agfs-shell2)
ShellResolve(p) ==
    /\ shell = "shell2"
    /\ rp' = [p |-> p,
              r |-> resolve_path(cwd, p),
              rr |-> resolve_path(cwd, resolve_path(cwd, p))]
    /\ clientPath' = NoCall
    /\ UNCHANGED <<shell, cwd, current_path>>
    /\ UNCHANGED shellVars

\* the same for agfs-shell
HandlerResolve(p) ==
    /\ shell = "agfs-shell"
    /\ rp' = [p |-> p,
              r |-> agfs_resolve_path(current_path, p),
              rr |-> agfs_resolve_path(current_path, agfs_resolve_path(current_path, p))]
    /\ clientPath' = NoCall
    /\ UNCHANGED <<shell, cwd, current_path>>
    /\ UNCHANGED shellVars

NextPath ==
    \/ \E noArg \in BOOLEAN, p \in PathStrings, listed \in BOOLEAN :
           ShellCd(noArg, p, listed)
    \/ \E noArg \in BOOLEAN, p \in PathStrings, isDir \in BOOLEAN :
           HandlerCd(noArg, p, isDir)
    \/ \E p \in PathStrings : ShellResolve(p)
    \/ \E p \in PathStrings : HandlerResolve(p)

SpecPath == InitPath /\ [][NextPath]_vars

(***************************************************************************)
(* The session specification: agfs-shell2 as a REPL or on a script file,   *)
(* fed statements that succeed and fail, assign, change directory (alone,  *)
(* in a pipeline, in a command substitution, in a loop), unset and export, *)
(* and for and if constructs written on one line and over several lines.  *)
(***************************************************************************)

\* what the server holds when the session starts
InitFiles == EnvSet(<<>>, <<"/", "f">>, <<"x", "\n">>)

\* the lines typed at the primary prompt, or found in the script file
TopLines ==
    {<<"e", "c", "h", "o", " ", "a">>, <<"n", "o", "s", "u", "c", "h">>, <<"t", "e", "s", "t">>, <<"X", "=", "/", "d">>, <<"c", "d", " ", "$", "X">>, <<"c", "d", " ", "/", "n", "x">>, <<"c", "d", " ", "/", "f">>,
     <<"e", "c", "h", "o", " ", "/", "d", " ", "|", " ", "c", "d">>, <<"e", "c", "h", "o", " ", "$", "(", "c", "d", " ", "/", "d", ")">>, <<"u", "n", "s", "e", "t", " ", "?">>, <<"e", "x", "p", "o", "r", "t", " ", "?", "=", "1">>,
     <<"f", "o", "r", " ", "x", " ", "i", "n", " ", "a", " ", "b", ";", " ", "d", "o", " ", "c", "d", " ", "/", "d", ";", " ", "d", "o", "n", "e">>, <<"i", "f", " ", "t", "e", "s", "t", " ", "a", ";", " ", "t", "h", "e", "n", " ", "c", "d", " ", "d", ";", " ", "f", "i">>,
     <<"f", "o", "r", " ", "x", " ", "i", "n", " ", "a">>, <<"i", "f", " ", "t", "e", "s", "t", " ", "a", ";", " ", "t", "h", "e", "n">>, <<"e", "c", "h", "o", " ", "a", " ", "\\">>, <<"#", " ", "c">>, <<"e", "x", "i", "t">>}

\* the lines typed at the secondary prompt
BlockLines ==
    {<<"d", "o", " ", "c", "d", " ", "/", "d">>, <<"d", "o", "n", "e">>, <<"f", "o", "r", " ", "x", " ", "i", "n", " ", "a">>, <<"i", "f", " ", "t", "e", "s", "t", " ", "b">>, <<"n", "o", "s", "u", "c", "h">>, <<"f", "i">>, <<"b">>}

\* what waits on the real standard input while a statement runs
TtyInputs == {<<>>}

InitSession ==
    /\ shell = "shell2"
    /\ runmode \in {"repl", "script"}
    /\ cwd = Slash
    /\ shenv = InitEnv
    /\ remote = InitFiles
    /\ pc = IF runmode = "repl" THEN "prompt" ELSE "script"
    /\ buf = <<>> /\ for_depth = 0 /\ count = 0 /\ status = 0
    /\ stmt = NoStatement
    /\ current_path = Slash /\ clientPath = NoCall /\ rp = NoResolve
    /\ tailf = NoTailf

SessionFrame == UNCHANGED <<shell, current_path, clientPath, rp, tailf>>

Next ==
    \/ \E line \in TopLines, tty \in TtyInputs : ReplLine(line, tty) /\ SessionFrame
    \/ \E line \in BlockLines, tty \in TtyInputs :
           Len(buf) < MaxBlock /\ ReplContinuation(line, tty) /\ SessionFrame
    \/ ReplCancel /\ SessionFrame
    \/ ReplEOF /\ SessionFrame
    \/ \E line \in BlockLines, tty \in TtyInputs :
           Len(buf) < MaxBlock /\ ReplForLine(line, tty) /\ SessionFrame
    \/ \E line \in BlockLines, tty \in TtyInputs :
           Len(buf) < MaxBlock /\ ReplIfLine(line, tty) /\ SessionFrame
    \/ \E tty \in TtyInputs : ReplBlockEOF(tty) /\ SessionFrame
    \/ \E line \in TopLines, tty \in TtyInputs : ScriptLine(line, tty) /\ SessionFrame
    \/ ScriptEnd /\ SessionFrame

Spec == InitSession /\ [][Next]_vars

(***************************************************************************)
(* Single statements of agfs-shell2: every line below is a complete        *)
(* statement, typed at the prompt or read from a script, over a server     *)
(* that holds /f, /d/x1.log and /d/x2.log                                  *)
(***************************************************************************)

MaxLines == 2

StatementFiles ==
    EnvSet(EnvSet(InitFiles, <<"/", "d", "/", "x", "2", ".", "l", "o", "g">>, <<"2", "\n">>), <<"/", "d", "/", "x", "1", ".", "l", "o", "g">>, <<"1", "\n">>)

StatementLines ==
    {<<"e", "c", "h", "o", " ", "\"", "a", "|", "b", "\"">>, <<"e", "c", "h", "o", " ", "\"", "a", " ", ">", " ", "q", "\"">>, <<"e", "c", "h", "o", " ", "'", "a", ";", "b", "'">>, <<"e", "c", "h", "o", " ", "a", " ", "|", " ", "c", "a", "t", " ", ">", " ", "/", "q">>,
     <<"f", "o", "r", " ", "f", " ", "i", "n", " ", "/", "d", "/", "*", ".", "l", "o", "g", ";", " ", "d", "o", " ", "e", "c", "h", "o", " ", "$", "f", ";", " ", "d", "o", "n", "e">>, <<"f", "o", "r", " ", "f", " ", "i", "n", " ", "b", " ", "a", ";", " ", "d", "o", " ", "e", "c", "h", "o", " ", "$", "f", ";", " ", "d", "o", "n", "e">>,
     <<"i", "f", " ", "t", "e", "s", "t", ";", " ", "t", "h", "e", "n", " ", "e", "c", "h", "o", " ", "1", ";", " ", "e", "l", "i", "f", " ", "t", "e", "s", "t", " ", "a", ";", " ", "t", "h", "e", "n", " ", "e", "c", "h", "o", " ", "2", ";", " ", "e", "l", "s", "e", " ", "e", "c", "h", "o", " ", "3", ";", " ", "f", "i">>,
     <<"i", "f", " ", "t", "e", "s", "t", " ", "a", ";", " ", "t", "h", "e", "n", " ", "e", "c", "h", "o", " ", "1", ";", " ", "n", "o", "s", "u", "c", "h", ";", " ", "e", "l", "i", "f", " ", "t", "e", "s", "t", " ", "a", ";", " ", "t", "h", "e", "n", " ", "e", "c", "h", "o", " ", "2", ";", " ", "f", "i">>,
     <<"i", "f", " ", "t", "e", "s", "t", ";", " ", "t", "h", "e", "n", " ", "e", "c", "h", "o", " ", "1", ";", " ", "e", "l", "s", "e", " ", "n", "o", "s", "u", "c", "h", ";", " ", "f", "i">>, <<"i", "f", " ", "t", "e", "s", "t", ";", " ", "t", "h", "e", "n", " ", "e", "c", "h", "o", " ", "1", ";", " ", "f", "i">>,
     <<"c", "a", "t", " ", "<", "<", " ", "E">>, <<"N", "=", "$", "(", "e", "c", "h", "o", " ", "3", ")", ";", " ", "e", "c", "h", "o", " ", "$", "N">>, <<"N", "=", "$", "(", "e", "c", "h", "o", " ", "3", ")">>, <<"e", "c", "h", "o", " ", "$", "N">>,
     <<"e", "c", "h", "o", " ", "/", "d", " ", "|", " ", "c", "d">>, <<"c", "d", " ", "/", "d", " ", "|", " ", "e", "c", "h", "o", " ", "a">>, <<"c", "d", " ", "/", "d">>,
     <<"e", "c", "h", "o", " ", "d", "/", "*", ".", "l", "o", "g">>, <<"e", "c", "h", "o", " ", "/", "d", "/", "x", "?", ".", "l", "o", "g", " ", "b">>, <<"e", "c", "h", "o", " ", "*", " ", "b">>, <<"e", "c", "h", "o", " ", "*", ".", "l", "o", "g">>,
     <<"e", "c", "h", "o", " ", "X", " ", "|", " ", "c", "a", "t">>, <<"u", "n", "s", "e", "t", " ", "X", " ", "|", " ", "c", "a", "t">>, <<"c", "a", "t">>, <<"#", " ", "c">>, <<" ">>, <<"n", "o", "s", "u", "c", "h">>,
     <<"e", "c", "h", "o", " ", "'", "$", "?", "'">>, <<"e", "c", "h", "o", " ", "\"", "$", "?", " ", "b", "\"">>, <<"e", "c", "h", "o", " ", "A", " ", ">", " ", "/", "q", " ", ">", " ", "/", "r">>, <<"e", "c", "h", "o", " ", "a", " ", ">", " ", "/", "q">>, <<"e", "c", "h", "o", " ", "b", " ", ">", ">", " ", "/", "q">>, <<"e", "c", "h", "o", " ", "c", " ", ">", ">", " ", "/", "r">>}

\* what waits on the real standard input while a statement runs
StatementTty == {<<>>, <<<<"t", "\n">>>>}

InitStatements ==
    /\ shell = "shell2"
    /\ runmode \in {"repl", "script"}
    /\ cwd = Slash
    /\ shenv = InitEnv
    /\ remote = StatementFiles
    /\ pc = IF runmode = "repl" THEN "prompt" ELSE "script"
    /\ buf = <<>> /\ for_depth = 0 /\ count = 0 /\ status = 0
    /\ stmt = NoStatement
    /\ current_path = Slash /\ clientPath = NoCall /\ rp = NoResolve
    /\ tailf = NoTailf

NextStatements ==
    \/ \E line \in StatementLines, tty \in StatementTty :
           count < MaxLines /\ ReplLine(line, tty) /\ SessionFrame
    \/ ReplEOF /\ SessionFrame
    \/ \E line \in StatementLines, tty \in StatementTty :
           count < MaxLines /\ ScriptLine(line, tty) /\ SessionFrame
    \/ ScriptEnd /\ SessionFrame

SpecStatements == InitStatements /\ [][NextStatements]_vars

(***************************************************************************)
(* Statements typed at the prompt of agfs-shell2 that read the standard    *)
(* input of the shell, where the user may press Ctrl+C                     *)
(***************************************************************************)

InterruptLines ==
    {<<"c", "a", "t">>, <<"c", "a", "t", " ", ">", " ", "/", "q">>, <<"c", "a", "t", " ", ">", ">", " ", "/", "f">>, <<"u", "n", "s", "e", "t", " ", "X", " ", "|", " ", "c", "a", "t">>, <<"e", "c", "h", "o", " ", "$", "?">>,
     <<"f", "o", "r", " ", "x", " ", "i", "n", " ", "a", " ", "b", ";", " ", "d", "o", " ", "c", "a", "t", " ", ">", " ", "/", "q", ";", " ", "d", "o", "n", "e">>, <<"i", "f", " ", "c", "a", "t", ";", " ", "t", "h", "e", "n", " ", "e", "c", "h", "o", " ", "1", ";", " ", "e", "l", "s", "e", " ", "e", "c", "h", "o", " ", "2", ";", " ", "f", "i">>}

InterruptTty == {<<>>, <<CtrlC>>, <<<<"t", "\n">>, CtrlC>>, <<<<"t", "\n">>, CtrlC, <<"u", "\n">>>>, <<<<"t", "\n">>>>}

InitInterrupt ==
    /\ shell = "shell2"
    /\ runmode = "repl"
    /\ cwd = Slash
    /\ shenv = InitEnv
    /\ remote = InitFiles
    /\ pc = "prompt"
    /\ buf = <<>> /\ for_depth = 0 /\ count = 0 /\ status = 0
    /\ stmt = NoStatement
    /\ current_path = Slash /\ clientPath = NoCall /\ rp = NoResolve
    /\ tailf = NoTailf

NextInterrupt ==
    \/ \E line \in InterruptLines, tty \in InterruptTty :
           count < MaxLines /\ ReplLine(line, tty) /\ SessionFrame
    \/ ReplEOF /\ SessionFrame

SpecInterrupt == InitInterrupt /\ [][NextInterrupt]_vars

(***************************************************************************)
(* Statements of agfs-shell2 that exercise the parser: redirections at     *)
(* each position of a simple command, and expansions whose results hold    *)
(* shell syntax                                                            *)
(***************************************************************************)

SyntaxLines ==
    {<<">", " ", "/", "q", " ", "e", "c", "h", "o", " ", "a">>, <<"e", "c", "h", "o", " ", ">", " ", "/", "q", " ", "a">>, <<"e", "c", "h", "o", " ", "a", " ", ">", " ", "/", "q">>, <<"e", "c", "h", "o", " ", "a", " ", "b", " ", ">", ">", " ", "/", "q">>,
     <<"c", "a", "t", " ", "<", " ", "/", "f">>, <<"<", " ", "/", "f", " ", "c", "a", "t">>, <<"c", "a", "t", " ", "/", "n", "o", "s", "u", "c", "h", " ", "2", ">", " ", "/", "q">>, <<"c", "a", "t", " ", "2", ">", ">", " ", "/", "q", " ", "/", "n", "o", "s", "u", "c", "h">>,
     <<"e", "c", "h", "o", " ", "a">>, <<"c", "a", "t", " ", "/", "f">>,
     <<"f", "o", "r", " ", "x", " ", "i", "n", " ", "a", " ", "b", ";", " ", "d", "o", " ", "f", "o", "r", " ", "y", " ", "i", "n", " ", "c", ";", " ", "d", "o", " ", "e", "c", "h", "o", " ", "$", "x", "$", "y", ";", " ", "d", "o", "n", "e", ";", " ", "e", "c", "h", "o", " ", "z", ";", " ", "d", "o", "n", "e">>,
     <<"f", "o", "r", " ", "x", " ", "i", "n", " ", "/", "f", " ", "/", "g", ";", " ", "d", "o", " ", "i", "f", " ", "t", "e", "s", "t", " ", "-", "e", " ", "$", "x", ";", " ", "t", "h", "e", "n", " ", "e", "c", "h", "o", " ", "$", "x", ";", " ", "f", "i", ";", " ", "e", "c", "h", "o", " ", "z", ";", " ", "d", "o", "n", "e">>,
     <<"i", "f", " ", "t", "e", "s", "t", " ", "a", ";", " ", "t", "h", "e", "n", " ", "f", "o", "r", " ", "y", " ", "i", "n", " ", "c", " ", "d", ";", " ", "d", "o", " ", "e", "c", "h", "o", " ", "$", "y", ";", " ", "d", "o", "n", "e", ";", " ", "e", "c", "h", "o", " ", "z", ";", " ", "f", "i">>,
     <<"i", "f", " ", "t", "e", "s", "t", " ", "a", ";", " ", "t", "h", "e", "n", " ", "i", "f", " ", "t", "e", "s", "t", " ", "b", ";", " ", "t", "h", "e", "n", " ", "e", "c", "h", "o", " ", "1", ";", " ", "f", "i", ";", " ", "e", "c", "h", "o", " ", "z", ";", " ", "f", "i">>,
     <<"X", "=", "\"", "a", " ", ">", " ", "/", "q", "\"">>, <<"X", "=", "\"", "a", " ", "|", " ", "c", "a", "t", " ", "/", "f", "\"">>, <<"e", "c", "h", "o", " ", "$", "X">>, <<"e", "c", "h", "o", " ", "$", "H", "I", "S", "T", "F", "I", "L", "E">>}

InitSyntax ==
    /\ shell = "shell2"
    /\ runmode \in {"repl", "script"}
    /\ cwd = Slash
    /\ shenv = InitEnv
    /\ remote = InitFiles
    /\ pc = IF runmode = "repl" THEN "prompt" ELSE "script"
    /\ buf = <<>> /\ for_depth = 0 /\ count = 0 /\ status = 0
    /\ stmt = NoStatement
    /\ current_path = Slash /\ clientPath = NoCall /\ rp = NoResolve
    /\ tailf = NoTailf

NextSyntax ==
    \/ \E line \in SyntaxLines, tty \in StatementTty :
           count < MaxLines /\ ReplLine(line, tty) /\ SessionFrame
    \/ ReplEOF /\ SessionFrame
    \/ \E line \in SyntaxLines, tty \in StatementTty :
           count < MaxLines /\ ScriptLine(line, tty) /\ SessionFrame
    \/ ScriptEnd /\ SessionFrame

SpecSyntax == InitSyntax /\ [][NextSyntax]_vars

(***************************************************************************)
(* Lines typed at the prompts of agfs-shell2 that are continued: by a     *)
(* trailing backslash, an open quote or an open bracket                   *)
(***************************************************************************)

MaxContinued == 2

ContinuedTop ==
    {<<"e", "c", "h", "o", " ", "a", " ", "\\">>, <<"e", "c", "h", "o", " ", "\"", "a">>, <<"e", "c", "h", "o", " ", "'", "a">>, <<"e", "c", "h", "o", " ", "'", "a", "\\", "'">>, 
     <<"e", "c", "h", "o", " ", "\"", "a", "\\", "\"">>, <<"e", "c", "h", "o", " ", "$", "(", "e", "c", "h", "o", " ", "a">>, <<"e", "c", "h", "o", " ", "$", "{", "X">>, <<"e", "c", "h", "o", " ", "a">>, <<"e", "c", "h", "o", " ", "'", "a", "'", " ", "\"", "b", "\"">>}

ContinuedNext == {<<"b">>, <<"b", "\"">>, <<"b", "'">>, <<")">>, <<"}">>, <<"c", " ", "\\">>}

InitContinued ==
    /\ shell = "shell2"
    /\ runmode = "repl"
    /\ cwd = Slash
    /\ shenv = InitEnv
    /\ remote = InitFiles
    /\ pc = "prompt"
    /\ buf = <<>> /\ for_depth = 0 /\ count = 0 /\ status = 0
    /\ stmt = NoStatement
    /\ current_path = Slash /\ clientPath = NoCall /\ rp = NoResolve
    /\ tailf = NoTailf

NextContinued ==
    \/ \E line \in ContinuedTop, tty \in TtyInputs :
           count < MaxContinued /\ ReplLine(line, tty) /\ SessionFrame
    \/ \E line \in ContinuedNext, tty \in TtyInputs :
           Len(buf) < MaxBlock /\ ReplContinuation(line, tty) /\ SessionFrame
    \/ ReplCancel /\ SessionFrame
    \/ ReplEOF /\ SessionFrame

SpecContinued == InitContinued /\ [][NextContinued]_vars

(***************************************************************************)
(* Statements of agfs-shell2 that redirect their output to a file, on the *)
(* buffered path and on the direct streaming path, whose input arrives in *)
(* chunks on the standard input of the shell.  The server holds /f, and   *)
(* /w, which it accepts writes to and refuses to read                     *)
(***************************************************************************)

StreamFiles == EnvSet(InitFiles, <<"/", "w">>, <<"w", "\n">>)

StreamLines ==
    {<<"c", "a", "t", " ", ">", " ", "/", "q">>, <<"c", "a", "t", " ", ">", ">", " ", "/", "q">>, <<"c", "a", "t", " ", ">", " ", "/", "f">>, <<"c", "a", "t", " ", ">", ">", " ", "/", "f">>, <<"c", "a", "t", " ", ">", ">", " ", "/", "w">>,
     <<"e", "c", "h", "o", " ", "a", " ", ">", " ", "/", "q">>, <<"e", "c", "h", "o", " ", "a", " ", ">", ">", " ", "/", "f">>, <<"e", "c", "h", "o", " ", "a", " ", ">", ">", " ", "/", "w">>, <<"e", "c", "h", "o", " ", "a", " ", ">", " ", "/", "w">>,
     <<"u", "n", "s", "e", "t", " ", "X", " ", ">", " ", "/", "q">>, <<"u", "n", "s", "e", "t", " ", "X", " ", ">", " ", "/", "f">>, <<"e", "c", "h", "o", " ", "a", " ", "|", " ", "c", "a", "t", " ", ">", " ", "/", "f">>, <<"c", "a", "t", " ", "/", "f", " ", ">", " ", "/", "q">>}

StreamTty == {<<>>, <<<<"t", "\n">>>>, <<<<"t", "\n">>, <<"u", "\n">>>>, <<<<"t">>, <<"u">>, <<"v">>>>}

InitStream ==
    /\ shell = "shell2"
    /\ runmode \in {"repl", "script"}
    /\ cwd = Slash
    /\ shenv = InitEnv
    /\ remote = StreamFiles
    /\ pc = IF runmode = "repl" THEN "prompt" ELSE "script"
    /\ buf = <<>> /\ for_depth = 0 /\ count = 0 /\ status = 0
    /\ stmt = NoStatement
    /\ current_path = Slash /\ clientPath = NoCall /\ rp = NoResolve
    /\ tailf = NoTailf

NextStream ==
    \/ \E line \in StreamLines, tty \in StreamTty :
           count < MaxLines /\ ReplLine(line, tty) /\ SessionFrame
    \/ ReplEOF /\ SessionFrame
    \/ \E line \in StreamLines, tty \in StreamTty :
           count < MaxLines /\ ScriptLine(line, tty) /\ SessionFrame
    \/ ScriptEnd /\ SessionFrame

SpecStream == InitStream /\ [][NextStream]_vars

(***************************************************************************)
(* tailf of pfs-shell (pfscli/cli_commands.py cmd_tailf) following the    *)
(* file TailPath while a writer changes it on the server.  Every request  *)
(* of tailf (stat, cat) is one step, and the writer may act between any   *)
(* two of them.  The k-th byte the writer writes is the number k, so that *)
(* what tailf prints shows which bytes it read; count is the number of    *)
(* writes made.                                                            *)
(***************************************************************************)

MaxWrites == 4

TailPath == <<"/", "l">>

\* chunk_size of the initial display
TailChunk == 8192

\* client.cat(path, offset, size): the bytes of the content from offset on,
\* size of them at most, all of them for size = -1
RangeRead(content, offset, size) ==
    IF offset >= Len(content) THEN <<>>
    ELSE SubSeq(content, offset + 1,
                IF size < 0 \/ offset + size > Len(content) THEN Len(content)
                ELSE offset + size)

TailfFrame ==
    UNCHANGED <<shell, runmode, cwd, shenv, buf, for_depth, status, stmt,
                current_path, clientPath, rp>>

InitTailf ==
    /\ shell = "pfs-shell"
    /\ runmode = "none" /\ cwd = Slash /\ shenv = <<>>
    /\ \E n \in 0..1 : remote = EnvSet(<<>>, TailPath, [i \in 1..n |-> i]) /\ count = n
    /\ pc = "start"
    /\ buf = <<>> /\ for_depth = 0 /\ status = 0
    /\ stmt = [done |-> FALSE]
    /\ current_path = Slash /\ clientPath = NoCall /\ rp = NoResolve
    /\ tailf = NoTailf

\* "1. Get initial file info": the first stat; an empty file has no initial
\* display
TailfStart ==
    /\ pc = "start"
    /\ tailf' = [tailf EXCEPT !.file_size = Len(remote[TailPath]),
                              !.last_offset = IF Len(remote[TailPath]) > 0 THEN @
                                              ELSE Len(remote[TailPath])]
    /\ pc' = IF Len(remote[TailPath]) > 0 THEN "initial" ELSE "sleep"
    /\ UNCHANGED <<remote, count>>

\* "2. Display last N lines initially": the trailing chunk is read and
\* shown; "3. Follow mode" starts at the size the first stat gave
TailfInitial ==
    /\ pc = "initial"
    /\ LET chunk_size == IF TailChunk < tailf.file_size THEN TailChunk ELSE tailf.file_size
       IN  tailf' = [tailf EXCEPT !.shown = RangeRead(remote[TailPath],
                                                      tailf.file_size - chunk_size,
                                                      chunk_size),
                                  !.last_offset = tailf.file_size]
    /\ pc' = "sleep"
    /\ UNCHANGED <<remote, count>>

\* the follow loop, "Check for file changes": the stat of one poll. A file
\* that grew is read next, a file that shrank sets the offset back to 0
TailfStat ==
    /\ pc = "sleep"
    /\ LET new_size == Len(remote[TailPath])
       IN  IF new_size > tailf.last_offset
           THEN pc' = "read" /\ tailf' = [tailf EXCEPT !.new_size = new_size]
           ELSE IF new_size < tailf.last_offset
           THEN pc' = "sleep" /\ tailf' = [tailf EXCEPT !.new_size = new_size,
                                                        !.last_offset = 0]
           ELSE pc' = "sleep" /\ tailf' = [tailf EXCEPT !.new_size = new_size]
    /\ UNCHANGED <<remote, count>>

\* the follow loop, "File grew": everything from last_offset to the end of
\* the file is read (size = -1) and printed, and last_offset becomes the
\* size the stat gave
TailfRead ==
    /\ pc = "read"
    /\ tailf' = [tailf EXCEPT !.printed = @ \o RangeRead(remote[TailPath],
                                                         tailf.last_offset, -1),
                              !.last_offset = tailf.new_size]
    /\ pc' = "sleep"
    /\ UNCHANGED <<remote, count>>

\* KeyboardInterrupt ends tailf
TailfInterrupt ==
    /\ pc \in {"initial", "sleep", "read"}
    /\ pc' = "ended"
    /\ UNCHANGED <<remote, count, tailf>>

\* the writer appends one byte to the file
WriterAppend ==
    /\ count < MaxWrites
    /\ count' = count + 1
    /\ remote' = EnvSet(remote, TailPath, Append(remote[TailPath], count + 1))
    /\ UNCHANGED <<pc, tailf>>

\* the writer replaces the file by a shorter one: an empty file, or a file
\* of one new byte
WriterTruncate ==
    /\ count < MaxWrites
    /\ Len(remote[TailPath]) > 0
    /\ count' = count + 1
    /\ \E n \in 0..1 :
           /\ n < Len(remote[TailPath])
           /\ remote' = EnvSet(remote, TailPath, [i \in 1..n |-> count + 1])
    /\ UNCHANGED <<pc, tailf>>

NextTailf ==
    \/ TailfStart /\ TailfFrame
    \/ TailfInitial /\ TailfFrame
    \/ TailfStat /\ TailfFrame
    \/ TailfRead /\ TailfFrame
    \/ TailfInterrupt /\ TailfFrame
    \/ WriterAppend /\ TailfFrame
    \/ WriterTruncate /\ TailfFrame

SpecTailf == InitTailf /\ [][NextTailf]_vars

\* the writer only appends
NextTailfAppend ==
    \/ TailfStart /\ TailfFrame
    \/ TailfInitial /\ TailfFrame
    \/ TailfStat /\ TailfFrame
    \/ TailfRead /\ TailfFrame
    \/ TailfInterrupt /\ TailfFrame
    \/ WriterAppend /\ TailfFrame

SpecTailfAppend == InitTailf /\ [][NextTailfAppend]_vars

\* ---- claims ----
\* C8: in every reachable state the cwd of either shell and the path handed to
\* the AGFS client are absolute and normalized: no `.` component, no `..`
\* component and no `//` anywhere, the very start included.
C8_PathsNormalized ==
    /\ IsNormalized(cwd)
    /\ IsNormalized(current_path)
    /\ (clientPath # NoCall => IsNormalized(clientPath))

\* C9: for every path string p and every reachable cwd, resolve(p) begins
\* with `/` and resolving the result again gives the same path.
C9_ResolveAbsoluteIdempotent ==
    /\ StartsWith(rp.r, Slash)
    /\ rp.rr = rp.r

\* a relative path with a `..` component was resolved against a cwd other
\* than `/`, in each shell
C9_Witness ==
    /\ rp.p = <<".", ".", "/", "a">>
    /\ \/ shell = "shell2" /\ cwd = <<"/", "a", "/", "a">>
       \/ shell = "agfs-shell" /\ current_path = <<"/", "a", "/", "a">>
    /\ rp.r = <<"/", "a", "/", "a">>

\* C1: after each top-level statement of agfs-shell2 completes, typed at the
\* prompt or read from a script file, env["?"] is the decimal string of that
\* statement's exit code.
C1_StatusIsExitCode ==
    (shell = "shell2" /\ stmt.done) =>
        /\ <<"?">> \in DOMAIN shenv
        /\ shenv[<<"?">>] = IntToStr(stmt.code)

\* C2: after every top-level statement of agfs-shell2, env["?"] is present and
\* is a non-negative decimal integer literal: digits only, so none of -997,
\* -998 and -999, and no statement leaves it missing or non-numeric.
C2_StatusIsNonNegativeDecimal ==
    (shell = "shell2" /\ stmt.done) =>
        /\ <<"?">> \in DOMAIN shenv
        /\ shenv[<<"?">>] # <<>>
        /\ \A i \in 1..Len(shenv[<<"?">>]) : shenv[<<"?">>][i] \in Digits

RECURSIVE OutsideQuotes(_, _, _)
\* the characters of s from position i on that stand outside every quoted
\* span, q being the quote that is open at i ("" for none)
OutsideQuotes(s, i, q) ==
    IF i > Len(s) THEN <<>>
    ELSE IF q = "" /\ s[i] \in {"'", "\""} THEN OutsideQuotes(s, i + 1, s[i])
    ELSE IF q # "" /\ s[i] = q THEN OutsideQuotes(s, i + 1, "")
    ELSE IF q # "" THEN OutsideQuotes(s, i + 1, q)
    ELSE <<s[i]>> \o OutsideQuotes(s, i + 1, q)

Metacharacters == {"|", "<", ">", ";"}

\* the line holds metacharacters, and all of them inside quoted spans
OnlyQuotedMetacharacters(s) ==
    /\ \E i \in 1..Len(s) : s[i] \in Metacharacters
    /\ \A i \in 1..Len(OutsideQuotes(s, 1, "")) :
           OutsideQuotes(s, 1, "")[i] \notin Metacharacters

\* C11: a statement of agfs-shell2 whose `|`, `<`, `>` and `;` all stand inside
\* quoted spans is one command line that runs one stage and writes no file:
\* the quoted characters split no pipeline, create no redirection and
\* separate no statements.
C11_QuotedMetacharactersAreOrdinary ==
    (shell = "shell2" /\ stmt.done /\ Len(stmt.lines) = 1
       /\ OnlyQuotedMetacharacters(stmt.lines[1])) =>
        /\ Len(stmt.execs) = 1
        /\ Len(stmt.stages) = 1
        /\ stmt.writes = <<>>

\* C12: a for loop runs its body once per item of the expanded items list, in
\* order, with the variable bound to the item: over a /d that holds x1.log
\* and x2.log, `for f in /d/*.log; do echo $f; done` runs the body twice and
\* prints /d/x1.log and /d/x2.log on separate lines, as `for f in b a` prints
\* b and a.
C12_ForRunsBodyOncePerItem ==
    (shell = "shell2" /\ stmt.done) =>
        /\ stmt.lines = <<<<"f", "o", "r", " ", "f", " ", "i", "n", " ", "/", "d", "/", "*", ".", "l", "o", "g", ";", " ", "d", "o", " ", "e", "c", "h", "o", " ", "$", "f", ";", " ", "d", "o", "n", "e">>>> =>
               /\ Len(stmt.execs) = 2
               /\ stmt.out = <<"/", "d", "/", "x", "1", ".", "l", "o", "g", "\n", "/", "d", "/", "x", "2", ".", "l", "o", "g", "\n">>
        /\ stmt.lines = <<<<"f", "o", "r", " ", "f", " ", "i", "n", " ", "b", " ", "a", ";", " ", "d", "o", " ", "e", "c", "h", "o", " ", "$", "f", ";", " ", "d", "o", "n", "e">>>> =>
               /\ Len(stmt.execs) = 2
               /\ stmt.out = <<"b", "\n", "a", "\n">>

\* C13: an if/elif/else construct evaluates its conditions in order up to the
\* first that exits 0 and no further, then runs exactly the body of that
\* branch and exits with the exit code of the body's last command; when no
\* condition exits 0 it runs the else body, and without one it runs nothing
\* and exits 0.
C13_IfRunsFirstSuccessfulBranch ==
    (shell = "shell2" /\ stmt.done /\ StartsWith(stmt.lines[1], <<"i", "f", " ">>)) =>
        LET parsed == parse_if_statement(IF Len(stmt.lines) = 1
                                         THEN StripAll(SplitSemi(stmt.lines[1]))
                                         ELSE stmt.lines)
            conds == parsed.conditions
            e == stmt.execs
            Ran(n, block) ==
                /\ Len(e) = n + Len(block)
                /\ \A j \in 1..Len(block) : e[n + j].line = block[j]
                /\ stmt.code = IF block = <<>> THEN 0 ELSE e[Len(e)].code
        IN  \/ \E k \in 1..Len(conds) :
                   /\ Len(e) >= k
                   /\ \A j \in 1..k : /\ e[j].line = conds[j].condition
                                      /\ (e[j].code = 0) <=> (j = k)
                   /\ Ran(k, conds[k].block)
            \/ /\ Len(e) >= Len(conds)
               /\ \A j \in 1..Len(conds) : /\ e[j].line = conds[j].condition
                                           /\ e[j].code # 0
               /\ Ran(Len(conds), parsed.else_block)

\* the elif branch of a construct with a failing if condition and an else
\* branch has run: two conditions were evaluated, then the one body
C13_Witness ==
    /\ shell = "shell2" /\ stmt.done
    /\ stmt.lines = <<<<"i", "f", " ", "t", "e", "s", "t", ";", " ", "t", "h", "e", "n", " ", "e", "c", "h", "o", " ", "1", ";", " ", "e", "l", "i", "f", " ", "t", "e", "s", "t", " ", "a", ";", " ", "t", "h", "e", "n", " ", "e", "c", "h", "o", " ", "2", ";", " ", "e", "l", "s", "e", " ", "e", "c", "h", "o", " ", "3", ";", " ", "f", "i">>>>
    /\ [j \in 1..Len(stmt.execs) |-> stmt.execs[j].line] = <<<<"t", "e", "s", "t">>, <<"t", "e", "s", "t", " ", "a">>, <<"e", "c", "h", "o", " ", "2">>>>
    /\ stmt.out = <<"2", "\n">>
    /\ stmt.code = 0

RECURSIVE HereDocContent(_)
\* the lines of a here-document, each followed by a newline
HereDocContent(lines) ==
    IF lines = <<>> THEN <<>> ELSE Head(lines) \o <<"\n">> \o HereDocContent(Tail(lines))

\* C14: a statement with `<<DELIM` completes at the first following line that
\* is DELIM exactly; the lines between are, verbatim and in order, the stdin
\* of its one stage, and the statement runs once.
C14_HereDocumentIsStdin ==
    (shell = "shell2" /\ stmt.done /\ HasSub(stmt.lines[1], <<"<", "<">>)) =>
        LET n == Len(stmt.lines)
            delim == Strip(Drop(stmt.lines[1], Find(stmt.lines[1], <<"<", "<">>) + 2))
        IN  /\ n >= 2
            /\ stmt.lines[n] = delim
            /\ \A i \in 2..(n - 1) : stmt.lines[i] # delim
            /\ Len(stmt.execs) = 1
            /\ Len(stmt.stages) = 1
            /\ stmt.stages[1].stdin = HereDocContent(SubSeq(stmt.lines, 2, n - 1))

\* C15: an assignment stores the expanded value and prints nothing, and `;`
\* ends it: after `N=$(echo 3)` the variable N is 3, and `N=$(echo 3); echo $N`
\* leaves N = 3 and prints 3 and a newline.
C15_AssignmentEndsAtSemicolon ==
    (shell = "shell2" /\ stmt.done) =>
        /\ stmt.lines = <<<<"N", "=", "$", "(", "e", "c", "h", "o", " ", "3", ")">>>> =>
               /\ EnvGet(shenv, <<"N">>, None) = <<"3">>
               /\ stmt.out = <<>>
               /\ stmt.code = 0
        /\ stmt.lines = <<<<"N", "=", "$", "(", "e", "c", "h", "o", " ", "3", ")", ";", " ", "e", "c", "h", "o", " ", "$", "N">>>> =>
               /\ EnvGet(shenv, <<"N">>, None) = <<"3">>
               /\ stmt.out = <<"3", "\n">>
               /\ stmt.code = 0

\* C16: in script mode every line read is either blank or a comment, and
\* then skipped, or executed as one statement whose exit code becomes the
\* exit status; a non-zero exit code ends the run at that line, so the status
\* is 0 for as long as the script runs and nothing runs after the end.
C16_ScriptStopsAtFirstFailure ==
    [][runmode = "script" =>
          /\ pc = "script" => status = 0
          /\ pc = "exited" => UNCHANGED <<stmt, status, count, shenv, cwd, remote>>
          /\ \A raw \in StatementLines, tty \in StatementTty :
                 ScriptLine(raw, tty) =>
                     IF Strip(raw) = <<>> \/ StartsWith(Strip(raw), <<"#">>)
                     THEN UNCHANGED <<stmt, status, pc, shenv, cwd, remote>>
                     ELSE /\ stmt'.done /\ stmt'.lines = <<Strip(raw)>>
                          /\ status' = stmt'.code
                          /\ pc' = IF stmt'.code # 0 THEN "exited" ELSE "script"]_vars

\* the second line of a script failed after a first that succeeded: the run
\* ended there with the exit code of that statement
C16_Witness ==
    /\ runmode = "script" /\ pc = "exited" /\ count = 2
    /\ stmt.done /\ stmt.lines = <<<<"n", "o", "s", "u", "c", "h">>>>
    /\ stmt.code = 127 /\ status = 127
    /\ EnvGet(shenv, <<"N">>, None) = <<"3">>

\* C17: a pipeline of two or more stages one of which is cd is rejected when
\* it runs: an error is reported and the exit code of the statement is not 0.
C17_CdInPipelineIsRejected ==
    (shell = "shell2" /\ stmt.done /\ Len(stmt.lines) = 1
       /\ Len(parse_pipeline(stmt.lines[1])) >= 2
       /\ \E k \in 1..Len(parse_pipeline(stmt.lines[1])) :
              parse_pipeline(stmt.lines[1])[k].cmd = <<"c", "d">>) =>
        /\ stmt.code # 0
        /\ stmt.err # <<>> \/ stmt.diag # <<>>

\* the entries of the directory of the resolved pattern w whose names match
\* its last component, as full paths
GlobMatches(w, c, files) ==
    LET resolved == resolve_path(c, w)
        dir == IF Dirname(resolved) = <<>> THEN Slash ELSE Dirname(resolved)
        names == {Basename(f) : f \in {g \in DOMAIN files \cup (Dirs \ {Slash}) :
                                           Dirname(g) = dir}}
    IN  {(IF dir = Slash THEN Slash ELSE dir \o Slash) \o n :
             n \in {m \in names : FnMatch(m, Basename(resolved))}}

RECURSIVE GlobSpliced(_, _, _)
\* the words with every pattern that has matches replaced, in place, by its
\* matches in lexicographic order
GlobSpliced(words, c, files) ==
    IF words = <<>> THEN <<>>
    ELSE (IF (\E i \in 1..Len(Head(words)) : Head(words)[i] \in {"*", "?"})
             /\ GlobMatches(Head(words), c, files) # {}
          THEN Sorted(GlobMatches(Head(words), c, files))
          ELSE <<Head(words)>>)
         \o GlobSpliced(Tail(words), c, files)

\* C19: the arguments of an echo with wildcard patterns, absolute or relative
\* to cwd, with or without a directory prefix, are the words of the line with
\* each pattern replaced in place by all and only the matching entries of the
\* resolved directory, as full paths in lexicographic order.
C19_GlobExpansion ==
    (shell = "shell2" /\ stmt.done
       /\ stmt.lines[1] \in {<<"e", "c", "h", "o", " ", "d", "/", "*", ".", "l", "o", "g">>, <<"e", "c", "h", "o", " ", "/", "d", "/", "x", "?", ".", "l", "o", "g", " ", "b">>, <<"e", "c", "h", "o", " ", "*", " ", "b">>,
                             <<"e", "c", "h", "o", " ", "*", ".", "l", "o", "g">>}) =>
        /\ Len(stmt.stages) = 1
        /\ stmt.stages[1].args = GlobSpliced(Tail(SplitWs(stmt.lines[1])), stmt.before, remote)

\* C20: a cat without arguments that is a later stage of a pipeline reads the
\* output of the stage before it and nothing else: it exits 0 and its stdout
\* is exactly that output, the empty one included.
C20_CatCopiesItsStdin ==
    (shell = "shell2" /\ stmt.done) =>
        \A k \in 2..Len(stmt.stages) :
            (stmt.stages[k].command = <<"c", "a", "t">> /\ stmt.stages[k].args = <<>>) =>
                /\ stmt.stages[k].stdin = stmt.stages[k - 1].stdout
                /\ stmt.stages[k].stdout = stmt.stages[k - 1].stdout
                /\ stmt.stages[k].code = 0

\* C18: a statement during which the user pressed Ctrl+C ends with exit code
\* 130, on the direct streaming path as anywhere else, and the REPL is back
\* at its prompt with env["?"] = 130.
C18_InterruptEndsWith130 ==
    (shell = "shell2" /\ stmt.done /\ stmt.interrupted) =>
        /\ stmt.code = 130
        /\ pc = "prompt"
        /\ EnvGet(shenv, <<"?">>, None) = <<"1", "3", "0">>

\* C3: in every pipeline each stage after the first reads on its stdin exactly
\* what the stage before it wrote to its stdout, and takes nothing from any
\* other source such as the standard input of the shell.
C3_StageReadsPreviousOutput ==
    (shell = "shell2" /\ stmt.done) =>
        \A k \in 2..Len(stmt.stages) :
            /\ stmt.stages[k].stdin = stmt.stages[k - 1].stdout
            /\ stmt.stages[k].tty_read = <<>>

\* C4: a statement that redirects its output D to a file with `>` leaves the
\* file holding D, and one that redirects with `>>` leaves it holding what it
\* held before followed by D, which on an absent file is D alone; so `> f`
\* and then `>> f` statements leave D D1 .. Dk in f.
C4_RedirectThenAppend ==
    (shell = "shell2" /\ stmt.done /\ Len(stmt.writes) = 1 /\ stmt.writes[1].ok) =>
        LET w == stmt.writes[1]
        IN  /\ stmt.stages # <<>> => w.data = stmt.stages[Len(stmt.stages)].stdout
            /\ EnvGet(remote, w.path, None) =
                   IF w.append /\ w.before # None THEN w.before \o w.data ELSE w.data

\* `echo b >> /q` has run after `echo a > /q` created the file
C4_Witness ==
    /\ shell = "shell2" /\ stmt.done /\ count = 2
    /\ stmt.lines = <<<<"e", "c", "h", "o", " ", "b", " ", ">", ">", " ", "/", "q">>>>
    /\ stmt.writes = <<[path |-> <<"/", "q">>, data |-> <<"b", "\n">>, append |-> TRUE, ok |-> TRUE,
                        before |-> <<"a", "\n">>]>>
    /\ EnvGet(remote, <<"/", "q">>, None) = <<"a", "\n", "b", "\n">>

\* C5: the chain `echo A > /q > /r` either writes both targets in order or,
\* when the write to /q returns an empty response, stops there with a
\* diagnostic and issues no write to /r.
C5_ChainAbortsOnEmptyResponse ==
    (shell = "shell2" /\ stmt.done /\ stmt.lines = <<<<"e", "c", "h", "o", " ", "A", " ", ">", " ", "/", "q", " ", ">", " ", "/", "r">>>>) =>
        /\ stmt.writes # <<>>
        /\ stmt.writes[1].path = <<"/", "q">> /\ stmt.writes[1].data = <<"A", "\n">>
        /\ \/ Len(stmt.writes) = 2 /\ stmt.writes[2].path = <<"/", "r">>
           \/ Len(stmt.writes) = 1 /\ (stmt.diag # <<>> \/ stmt.err # <<>>)

\* C6: the stdout targets of `echo A > /q > /r` are written in their textual
\* order: /q receives the output of echo, and then /r is written.
C6_RedirectTargetsInOrder ==
    (shell = "shell2" /\ stmt.done /\ stmt.lines = <<<<"e", "c", "h", "o", " ", "A", " ", ">", " ", "/", "q", " ", ">", " ", "/", "r">>>>) =>
        /\ Len(stmt.writes) = 2
        /\ stmt.writes[1].path = <<"/", "q">> /\ stmt.writes[1].data = <<"A", "\n">>
        /\ stmt.writes[2].path = <<"/", "r">>

\* C10: text inside single quotes reaches the command as written, and the
\* same form inside double quotes is expanded and stays one argument: the
\* argument of `echo '$?'` is $? and that of `echo "$? b"` is the exit code
\* of the statement before, a space and b.
C10_SingleQuotesAreLiteral ==
    (shell = "shell2" /\ stmt.done /\ Len(stmt.stages) = 1) =>
        /\ stmt.lines = <<<<"e", "c", "h", "o", " ", "'", "$", "?", "'">>>> => stmt.stages[1].args = <<<<"$", "?">>>>
        /\ stmt.lines = <<<<"e", "c", "h", "o", " ", "\"", "$", "?", " ", "b", "\"">>>> =>
               /\ Len(stmt.stages[1].args) = 1
               /\ EndsWith(stmt.stages[1].args[1], <<" ", "b">>)
               /\ stmt.stages[1].args[1][1] \in Digits

\* C7: the cwd of agfs-shell2 changes only as the effect of a successful cd
\* statement of one stage: across every command line a statement executes,
\* in loops, branches and substitutions too, cwd is handed on unchanged
\* unless the line is a lone cd that exits 0, and the session keeps the cwd
\* the statement left.
C7_CwdChangesOnlyByCd ==
    (shell = "shell2" /\ stmt.done) =>
        LET e == stmt.execs
        IN  /\ cwd = stmt.after
            /\ e = <<>> => stmt.after = stmt.before
            /\ e # <<>> => e[1].before = stmt.before /\ e[Len(e)].after = stmt.after
            /\ \A j \in 1..(Len(e) - 1) : e[j + 1].before = e[j].after
            /\ \A j \in 1..Len(e) :
                   e[j].after # e[j].before =>
                       /\ e[j].code = 0
                       /\ \A i \in 1..Len(e[j].line) : e[j].line[i] # "|"
                       /\ \/ Strip(e[j].line) = <<"c", "d">>
                          \/ StartsWith(Strip(e[j].line), <<"c", "d", " ">>)

\* a for loop whose body is `cd /d` has moved the session from / to /d
C7_Witness ==
    /\ shell = "shell2" /\ stmt.done
    /\ stmt.lines = <<<<"f", "o", "r", " ", "x", " ", "i", "n", " ", "a", " ", "b", ";", " ", "d", "o", " ", "c", "d", " ", "/", "d", ";", " ", "d", "o", "n", "e">>>>
    /\ stmt.before = Slash /\ stmt.after = <<"/", "d">> /\ cwd = <<"/", "d">>

\* the redirection operators, with the stream and the mode each stands for
RedirectionOperators ==
    {[op |-> <<"<">>, type |-> "stdin", mode |-> NoMode],
     [op |-> <<">">>, type |-> "stdout", mode |-> "write"],
     [op |-> <<">", ">">>, type |-> "stdout", mode |-> "append"],
     [op |-> <<"2", ">">>, type |-> "stderr", mode |-> "write"],
     [op |-> <<"2", ">", ">">>, type |-> "stderr", mode |-> "append"]}

\* the words of a line without words i and i + 1
WithoutRedirection(words, i) ==
    SubSeq(words, 1, i - 1) \o SubSeq(words, i + 2, Len(words))

\* the redirections that record operand f for operator o and nothing else
OnlyRedirection(o, f) ==
    IF o.type = "stdin" THEN [NoRedirections EXCEPT !.stdin = f]
    ELSE IF o.type = "stderr"
    THEN [NoRedirections EXCEPT !.stderr = f, !.stderr_mode = o.mode]
    ELSE [NoRedirections EXCEPT !.stdout = f, !.stdout_mode = o.mode]

\* C21: a simple command without quotes, pipes or expansions whose words hold
\* exactly one redirection operator followed by its operand, at the start, in
\* the middle or at the end, parses to the one command made of the other
\* words, with the operand recorded for the operator's stream and mode.
C21_RedirectionAtAnyPosition ==
    (shell = "shell2" /\ stmt.done /\ Len(stmt.lines) = 1) =>
        LET line == stmt.lines[1]
            words == SplitWs(line)
            ops == {i \in 1..(Len(words) - 1) :
                        \E o \in RedirectionOperators : words[i] = o.op}
        IN  ((\A i \in 1..Len(line) : line[i] \in WordChars \cup {" ", "/", "<", ">"})
               /\ Cardinality(ops) = 1 /\ Len(words) >= 3) =>
                \A i \in ops : \A o \in RedirectionOperators :
                    words[i] = o.op =>
                        LET rest == WithoutRedirection(words, i)
                        IN  parse_command_line(line) =
                                [commands |-> <<[cmd |-> Head(rest), args |-> Tail(rest)]>>,
                                 redirections |-> OnlyRedirection(o, words[i + 1])]

\* how many of the lines, stripped, satisfy Test
CountLines(lines, Test(_)) ==
    Cardinality({i \in 1..Len(lines) : Test(Strip(lines[i]))})

IsForOpener(l) == StartsWith(l, <<"f", "o", "r", " ">>)
IsIfOpener(l) == StartsWith(l, <<"i", "f", " ">>)
IsDone(l) == l = <<"d", "o", "n", "e">>
IsFi(l) == l = <<"f", "i">>

\* C22: at the prompt, a for or if opener without its terminator starts the
\* collection of lines and runs nothing; the collection ends, and the block
\* runs, at a terminator line only when that line closes the outermost
\* opener, every opener of the same construct collected before it being
\* closed by a terminator of its own.
C22_BlockCollectedToOutermostTerminator ==
    [][/\ (pc = "prompt" /\ pc' \in {"for", "if"}) =>
              /\ stmt' = stmt /\ shenv' = shenv /\ cwd' = cwd /\ remote' = remote
              /\ Len(buf') = 1
              /\ IF pc' = "for" THEN IsForOpener(Strip(buf'[1]))
                 ELSE IsIfOpener(Strip(buf'[1]))
       /\ (pc = "for" /\ pc' = "prompt" /\ stmt'.done /\ stmt' # stmt
             /\ Len(stmt'.lines) = Len(buf) + 1
             /\ IsDone(Strip(stmt'.lines[Len(stmt'.lines)]))) =>
              /\ SubSeq(stmt'.lines, 1, Len(buf)) = buf
              /\ CountLines(stmt'.lines, IsForOpener) = CountLines(stmt'.lines, IsDone)
       /\ (pc = "if" /\ pc' = "prompt" /\ stmt'.done /\ stmt' # stmt
             /\ Len(stmt'.lines) = Len(buf) + 1
             /\ IsFi(Strip(stmt'.lines[Len(stmt'.lines)]))) =>
              /\ SubSeq(stmt'.lines, 1, Len(buf)) = buf
              /\ CountLines(stmt'.lines, IsIfOpener) = CountLines(stmt'.lines, IsFi)
      ]_vars

\* statements with a construct nested in the body of another, followed by
\* one more body statement, and what each prints when the nested construct
\* runs as a unit in its turn and the rest of the body after it
NestedStatements ==
    {[line |-> <<"f", "o", "r", " ", "x", " ", "i", "n", " ", "a", " ", "b", ";", " ", "d", "o", " ", "f", "o", "r", " ", "y", " ", "i", "n", " ", "c", ";", " ", "d", "o", " ", "e", "c", "h", "o", " ", "$", "x", "$", "y", ";", " ", "d", "o", "n", "e", ";", " ", "e", "c", "h", "o", " ", "z", ";", " ", "d", "o", "n", "e">>,
      out |-> <<"a", "c", "\n", "z", "\n", "b", "c", "\n", "z", "\n">>],
     [line |-> <<"f", "o", "r", " ", "x", " ", "i", "n", " ", "/", "f", " ", "/", "g", ";", " ", "d", "o", " ", "i", "f", " ", "t", "e", "s", "t", " ", "-", "e", " ", "$", "x", ";", " ", "t", "h", "e", "n", " ", "e", "c", "h", "o", " ", "$", "x", ";", " ", "f", "i", ";", " ", "e", "c", "h", "o", " ", "z", ";", " ", "d", "o", "n", "e">>,
      out |-> <<"/", "f", "\n", "z", "\n", "z", "\n">>],
     [line |-> <<"i", "f", " ", "t", "e", "s", "t", " ", "a", ";", " ", "t", "h", "e", "n", " ", "f", "o", "r", " ", "y", " ", "i", "n", " ", "c", " ", "d", ";", " ", "d", "o", " ", "e", "c", "h", "o", " ", "$", "y", ";", " ", "d", "o", "n", "e", ";", " ", "e", "c", "h", "o", " ", "z", ";", " ", "f", "i">>,
      out |-> <<"c", "\n", "d", "\n", "z", "\n">>],
     [line |-> <<"i", "f", " ", "t", "e", "s", "t", " ", "a", ";", " ", "t", "h", "e", "n", " ", "i", "f", " ", "t", "e", "s", "t", " ", "b", ";", " ", "t", "h", "e", "n", " ", "e", "c", "h", "o", " ", "1", ";", " ", "f", "i", ";", " ", "e", "c", "h", "o", " ", "z", ";", " ", "f", "i">>,
      out |-> <<"1", "\n", "z", "\n">>]}

\* C23: a for or if nested in the body of a for or an if runs as one unit
\* when its turn comes, and the enclosing construct goes on with the rest of
\* its body and its iteration: the statement prints what the nested
\* construct prints, then what the rest of the body prints, once per
\* iteration of the enclosing construct, and exits 0 with no error.
C23_NestedConstructRunsAsUnit ==
    (shell = "shell2" /\ stmt.done /\ Len(stmt.lines) = 1) =>
        \A n \in NestedStatements :
            stmt.lines[1] = n.line =>
                /\ stmt.out = n.out
                /\ stmt.code = 0
                /\ stmt.err = <<>> /\ stmt.diag = <<>>

RECURSIVE OpenQuote(_, _, _)
\* the quote left open at the end of text read from position i in quote
\* state q ("" outside quotes): a backslash escapes the next character only
\* inside double quotes
OpenQuote(text, i, q) ==
    IF i > Len(text) THEN q
    ELSE IF q = "\"" /\ text[i] = "\\" THEN OpenQuote(text, i + 2, q)
    ELSE IF q = "" /\ text[i] \in {"\"", "'"} THEN OpenQuote(text, i + 1, text[i])
    ELSE IF q # "" /\ text[i] = q THEN OpenQuote(text, i + 1, "")
    ELSE OpenQuote(text, i + 1, q)

\* the text accumulated from the lines typed so far calls for one more line
WantsContinuation(lines) ==
    LET text == JoinWith(lines, <<" ">>)
    IN  \/ EndsWith(RStrip(text), <<"\\">>)
        \/ OpenQuote(text, 1, "") # ""
        \/ Count(text, "(") > Count(text, ")")
        \/ Count(text, "{") > Count(text, "}")

\* C24: a line typed at the primary or at the continuation prompt is
\* followed by a continuation prompt exactly when the text accumulated with
\* it ends in a backslash, leaves a quote open (a backslash escaping only
\* inside double quotes) or leaves a ( or { unbalanced; otherwise the
\* statement is dispatched, and a line continued by a backslash is joined
\* to the next one without the backslash and without a newline.
C24_ContinuationExactlyWhenIncomplete ==
    [][runmode = "repl" =>
           /\ \A line \in ContinuedTop, tty \in TtyInputs :
                  (count < MaxContinued /\ ReplLine(line, tty)) =>
                      (pc' = "cont" <=> WantsContinuation(<<line>>))
           /\ \A line \in ContinuedNext, tty \in TtyInputs :
                  (Len(buf) < MaxBlock /\ ReplContinuation(line, tty)) =>
                      /\ pc' = "cont" <=> WantsContinuation(Append(buf, line))
                      /\ (pc' = "prompt" /\ Len(buf) = 1 /\ stmt' # stmt
                            /\ EndsWith(buf[1], <<"\\">>)) =>
                             stmt'.lines =
                                 <<Strip(SubSeq(buf[1], 1, Len(buf[1]) - 1) \o line)>>
      ]_vars

\* the content of a file of the server, empty for a file that is absent
ContentOf(files, path) == IF path \in DOMAIN files THEN files[path] ELSE <<>>

\* the statement takes the direct streaming path: one stage that supports
\* streaming, without arguments, with a > or >> target and no < source
IsDirectStream(line) ==
    LET p == parse_command_line(line)
    IN  /\ Len(p.commands) = 1
        /\ supports_streaming(p.commands[1].cmd)
        /\ p.commands[1].args = <<>>
        /\ p.redirections.stdout # None
        /\ p.redirections.stdin = None

\* what the direct streaming path must have done for line with chunks tty,
\* files being the server before and st the completed statement
StreamedAsClaimed(line, tty, files, files2, st) ==
    LET rd == parse_command_line(line).redirections
        target == resolve_path(st.before, rd.stdout)
    IN  /\ Len(st.writes) = Len(tty)
        /\ \A j \in 1..Len(tty) :
               /\ st.writes[j].path = target
               /\ st.writes[j].data = tty[j]
               /\ st.writes[j].append = (rd.stdout_mode = "append" \/ j > 1)
        /\ ContentOf(files2, target) =
               (IF rd.stdout_mode = "append" THEN ContentOf(files, target) ELSE <<>>)
               \o Concat(tty)

StatementStdout(line, tty, st) ==
    IF IsDirectStream(line) THEN Concat(tty)
    ELSE IF st.stages = <<>> THEN <<>>
    ELSE st.stages[Len(st.stages)].stdout

\* C28: after a statement with a > f redirection has exited 0, the file f
\* exists on the server and holds exactly the standard output of the
\* statement, the empty output included, on the buffered path, on the
\* direct streaming path and for a pipeline.
C28_RedirectTargetHoldsStdout ==
    [][\A line \in StreamLines, tty \in StreamTty :
           (/\ count < MaxLines
            /\ ReplLine(line, tty) \/ ScriptLine(line, tty)
            /\ parse_command_line(line).redirections.stdout_mode = "write"
            /\ stmt'.done /\ stmt'.code = 0 /\ stmt'.lines = <<line>>) =>
               LET f == resolve_path(cwd, parse_command_line(line).redirections.stdout)
               IN  /\ f \in DOMAIN remote'
                   /\ remote'[f] = StatementStdout(line, tty, stmt')
      ]_vars

\* C29: a statement with a >> redirection to a file that exists and that the
\* server refuses to read, and that has output to append, fails, and issues
\* no write that leaves the file with less than its content: the file is as
\* it was.
C29_AppendKeepsUnreadableContent ==
    [][\A line \in StreamLines, tty \in StreamTty :
           (/\ count < MaxLines
            /\ ReplLine(line, tty) \/ ScriptLine(line, tty)
            /\ parse_command_line(line).redirections.stdout_mode = "append"
            /\ ReadDenied(resolve_path(cwd, parse_command_line(line).redirections.stdout))
            /\ resolve_path(cwd, parse_command_line(line).redirections.stdout) \in DOMAIN remote
            /\ ~(IsDirectStream(line) /\ tty = <<>>)
            /\ stmt'.done /\ stmt'.lines = <<line>>) =>
               LET f == resolve_path(cwd, parse_command_line(line).redirections.stdout)
               IN  /\ stmt'.code # 0
                   /\ remote'[f] = remote[f]
                   /\ \A j \in 1..Len(stmt'.writes) :
                          stmt'.writes[j].path # f \/ ~stmt'.writes[j].ok
      ]_vars

\* C27: what a variable expands to is data. A statement whose text has no
\* redirection operator writes no file, and a statement whose text has no
\* pipe runs one stage, the command named by its first word, whatever
\* characters the values of its variables hold: echo $NAME writes no file,
\* runs echo alone and prints the value of NAME.
C27_ExpansionResultIsData ==
    (shell = "shell2" /\ stmt.done /\ Len(stmt.lines) = 1
       /\ StartsWith(stmt.lines[1], <<"e", "c", "h", "o", " ", "$">>)) =>
        /\ stmt.writes = <<>>
        /\ Len(stmt.stages) = 1
        /\ stmt.stages[1].command = <<"e", "c", "h", "o">>
        /\ LET name == Drop(stmt.lines[1], 6)
           IN  EnvGet(shenv, name, None) # None =>
                   stmt.out = EnvGet(shenv, name, None) \o <<"\n">>

\* C26: in the follow loop of tailf, a poll that finds the file larger than
\* the stored offset prints the bytes from the stored offset up to the size
\* it found and sets the offset to that size; a poll that finds it smaller
\* sets the offset to 0 and prints nothing; a poll that finds the size equal
\* to the offset prints nothing and leaves the offset.
C26_PollEmitsUpToObservedSize ==
    [][/\ (pc = "sleep" /\ pc' = "sleep" /\ tailf' # tailf) =>
              /\ tailf'.printed = tailf.printed
              /\ tailf'.last_offset =
                     IF Len(remote[TailPath]) < tailf.last_offset THEN 0
                     ELSE tailf.last_offset
       /\ (pc = "sleep" /\ pc' = "read") =>
              /\ tailf'.new_size = Len(remote[TailPath])
              /\ tailf'.new_size > tailf.last_offset
              /\ tailf'.printed = tailf.printed
       /\ (pc = "read" /\ pc' = "sleep") =>
              /\ tailf'.printed =
                     tailf.printed \o RangeRead(remote[TailPath], tailf.last_offset,
                                                tailf.new_size - tailf.last_offset)
              /\ tailf'.last_offset = tailf.new_size
      ]_vars

\* C30: while the writer only appends, what tailf has printed in its follow
\* loop is, byte for byte and in order, the beginning of what was appended
\* to the file after tailf started: no byte twice, none out of order.
C30_AppendedBytesPrintedOnce ==
    (shell = "pfs-shell" /\ pc \in {"sleep", "read", "ended"}) =>
        /\ Len(tailf.printed) <= Len(remote[TailPath]) - tailf.file_size
        /\ tailf.printed = SubSeq(remote[TailPath], tailf.file_size + 1,
                                  tailf.file_size + Len(tailf.printed))

====
